---- MODULE Spec2Model ----
(***************************************************************************)
(* State-machine model of the cooperative firmware core of                 *)
(* embedded-iot-controller: the chunked TFT render engine (Src/tft.c), the *)
(* UI line manager (Src/app_helpers.c), the SPI job wrapper                *)
(* (Src/app_spi.c) and the I2C sensor poll service (Src/i2c.c).            *)
(*                                                                         *)
(* C strings are sequences of non-zero character codes.  One action is one *)
(* complete call of a function of the firmware; the result of a HAL call   *)
(* (an external collaborator) is a nondeterministic input of the action.   *)
(* The variables under "observation" record what the last call did on the  *)
(* SPI bus and are never read by the modelled code.                        *)
(***************************************************************************)
EXTENDS Integers, Sequences, FiniteSets, TLC

(***************************************************************************)
(* Program constants                                                       *)
(***************************************************************************)
TFT_W == 160
TFT_H == 128
TFT_PIXELS == TFT_W * TFT_H
FONT_W == 5
CHAR_SP == 1
CELL_W == FONT_W + CHAR_SP
LINE_H == 8
MAX_CHARS == TFT_W \div CELL_W
TFT_CHUNK_BYTES == 512
UI_LINE_H == 8
UI_MAX_LINES == 16
UI_TEXT_MAX == 128
POLL_MS == 500
APP_UDP_PORT == 5005
APP_TCP_PORT == 6006
APP_RASPI_IP == "192.168.1.50"
\* The periods of app_net.c: TCP reconnect backoff, lwIP pump, telemetry
ReconnectMs == 2000
LwipPollMs == 10
SendPeriodMs == 1000

U16(x) == x % 65536
U8(x) == x % 256

(***************************************************************************)
(* Bounds of the model: the inputs the environment draws from              *)
(***************************************************************************)
\* RGB565 colours handed to TFT_FillColor_Async: 0x0000 (boot clear), then
\* 0xF800, 0x07E0, 0x001F (TFT_RGB_Cycle), then 1, 2, ...
NColors == 2
ColorOf(k) ==
  CASE k = 0 -> 0 [] k = 1 -> 63488 [] k = 2 -> 2016 [] k = 3 -> 31
    [] OTHER -> k - 3
Colors == {ColorOf(k) : k \in 0..(NColors - 1)}

\* '.' of the ellipsis
Chr_Dot == 46
\* Texts: "X", "Y"
TextX == <<88>>
TextY == <<89>>

Rep(c, n) == [i \in 1..n |-> c]

\* The millisecond counter: uint32_t, scaled to TickBits bits; it advances
\* in steps of TickStep until MaxTick milliseconds have passed, or until
\* MaxWrapTick milliseconds have passed, which is after its first wrap-around
TickBits == 12
TickMod == 2 ^ TickBits
TickStep == 250
MaxTick == 1500
MaxWrapTick == TickMod + 1000
\* The network client is run with steps of NetTickStep, which pass the tick
\* TickMod - ReconnectMs, until NetMaxTick milliseconds have passed
NetTickStep == (TickMod - ReconnectMs) \div 4
NetMaxTick == 5 * NetTickStep
\* Arguments of APP_NET_SetRemote: an address that parses and one that does
\* not
ValidIps == {APP_RASPI_IP, "192.168.1.60"}
RemoteArgs == {<<"192.168.1.60", 7007, 8008>>, <<"192.168.1", 7007, 8008>>}

\* HAL_I2C_GetError() values, as sets of HAL_I2C_ERROR_* flags
ErrCodes == {{}, {"AF"}, {"BERR", "ARLO"}, {"SIZE"}}
\* The outcomes of one HAL_I2C_Master_Receive: status, error flags, 2 bytes
OkAttempts ==
  {[st |-> "HAL_OK", e |-> {}, b0 |-> 25, b1 |-> 0],
   [st |-> "HAL_OK", e |-> {}, b0 |-> 255, b1 |-> 255]}
FailAttempts ==
  {[st |-> "HAL_ERROR", e |-> e, b0 |-> 0, b1 |-> 0] : e \in ErrCodes}
Attempts == OkAttempts \cup FailAttempts
\* Reads of SDA that find it low during a bus recovery
SdaLowReads == {0, 10}

\* Line indexes handed to the UI line manager: 0 .. NLines - 1, and the
\* first index out of range
NLines == 2
UiIdx == (0..(NLines - 1)) \cup {UI_MAX_LINES}
\* Texts handed to App_UI_SetLine
UiTexts == {TextX, TextY}
\* Texts handed to App_UI_SetLine in the text-length specification: of
\* UI_TEXT_MAX - 1 and UI_TEXT_MAX characters
UiLongTexts == {<<>>, TextX, Rep(88, UI_TEXT_MAX - 1), Rep(88, UI_TEXT_MAX)}
\* Foreground colours handed to App_UI_SetLine (white, yellow, ...)
UiFgs == {65535}

\* Texts handed directly to TFT_DrawTextLine_Async
DrawTexts == {TextX, Rep(89, MAX_CHARS + 1)}
\* y coordinates handed directly to TFT_DrawTextLine_Async
DrawYs == {0, TFT_H - LINE_H + 1, TFT_H}


\* Timestamps of telemetry samples, as <<hi, lo>> halves of a uint32_t:
\* 0, 9, 10, 65535, 65536, 2^31 - 1, 2^31, 2^32 - 1, and some more
NTeleTs == 8
TeleTsOf(k) ==
  CASE k = 0 -> <<0, 0>> [] k = 1 -> <<0, 9>> [] k = 2 -> <<0, 10>>
    [] k = 3 -> <<0, 65535>> [] k = 4 -> <<1, 0>> [] k = 5 -> <<32767, 65535>>
    [] k = 6 -> <<32768, 0>> [] k = 7 -> <<65535, 65535>>
    [] OTHER -> <<k, 1000 * k>>
TeleTs == {TeleTsOf(k) : k \in 0..(NTeleTs - 1)}
\* Sensor readings of telemetry samples (int32_t): from INT32_MIN to INT32_MAX
TeleTemps == {-2147483647 - 1, -32768, -10, -1, 0, 25, 65536, 2147483647}
\* CAN snapshot texts of telemetry samples: "none", "", a text of 63
\* characters, and the text  ","ts":1,"i2c":-2,"
TextNone == <<110, 111, 110, 101>>
TextTricky == <<34, 44, 34, 116, 115, 34, 58, 49, 44, 34, 105, 50, 99, 34, 58,
                45, 50, 44, 34>>
TeleTexts == {TextNone, <<>>, Rep(88, 63), TextTricky}
\* Packets the USB host sends: "ab\r", "cd\n", "e", "\r", backspace, ESC
RxPackets == {<<97, 98, 13>>, <<99, 100, 10>>, <<101>>, <<13>>, <<8>>, <<27>>}
\* Packets the USB host sends while the whole main loop runs: "e", "\r"
MainRxPackets == {<<101>>, <<13>>}
\* The number of packets received
MaxRx == 3
\* What the main loop prints, and how often
PrintTexts == {<<120>>}
MaxPrints == 1
\* The packets that fill the console output ring, and how many arrive
FillPackets == {Rep(97, 64)}
MaxFillRx == 8
\* The command lines the USB host sends, each in one packet, and how many
StatusPackets ==
  {<<115, 116, 97, 116, 117, 115, 13>>,
   <<115, 116, 97, 116, 117, 115, 32, 106, 115, 111, 110, 13>>,
   <<32, 103, 101, 116, 32, 105, 50, 99, 13>>}
MaxCmds == 1
StatusMaxTick == 2 * POLL_MS
NoMainObs == [wfi |-> FALSE, cons_empty |-> TRUE, busy |-> FALSE]

\* CAN frames delivered by HAL_CAN_GetRxMessage: heartbeats, light sensor
\* frames, and frames the decoder ignores (short, extended id, remote)
CanFrame(id, ide, rtr, dlc, d) ==
  [StdId |-> id, IDE |-> ide, RTR |-> rtr, DLC |-> dlc, d |-> d]
CanFrames ==
  {CanFrame(257, "CAN_ID_STD", "CAN_RTR_DATA", 1, <<7, 0, 0, 0, 0, 0, 0, 0>>),
   CanFrame(257, "CAN_ID_STD", "CAN_RTR_DATA", 8, <<255, 0, 0, 0, 0, 0, 0, 0>>),
   CanFrame(257, "CAN_ID_STD", "CAN_RTR_DATA", 0, <<9, 0, 0, 0, 0, 0, 0, 0>>),
   CanFrame(288, "CAN_ID_STD", "CAN_RTR_DATA", 8, <<16, 39, 0, 0, 2, 1, 3, 0>>),
   CanFrame(288, "CAN_ID_STD", "CAN_RTR_DATA", 8,
            <<255, 255, 255, 255, 255, 255, 255, 255>>),
   CanFrame(288, "CAN_ID_STD", "CAN_RTR_DATA", 7, <<1, 0, 0, 0, 0, 0, 0, 0>>),
   CanFrame(257, "CAN_ID_EXT", "CAN_RTR_DATA", 1, <<5, 0, 0, 0, 0, 0, 0, 0>>),
   CanFrame(288, "CAN_ID_STD", "CAN_RTR_REMOTE", 8, <<0, 0, 0, 0, 0, 0, 0, 0>>)}
\* The clock of the CAN decoder advances in steps of CanTickStep until
\* CanMaxTick milliseconds have passed: more than a whole turn of the counter
CanTickStep == 500
CanMaxTick == TickMod + 5 * CanTickStep
\* The freshness window of the snapshot getters
FRESH_MS == 2000
\* The frames that arrive while the main loop copies a snapshot, and the
\* clock then: one step takes a snapshot past its freshness
CopyFrames ==
  {CanFrame(257, "CAN_ID_STD", "CAN_RTR_DATA", 1, <<7, 0, 0, 0, 0, 0, 0, 0>>),
   CanFrame(257, "CAN_ID_STD", "CAN_RTR_DATA", 8, <<255, 0, 0, 0, 0, 0, 0, 0>>),
   CanFrame(288, "CAN_ID_STD", "CAN_RTR_DATA", 8, <<16, 39, 0, 0, 2, 1, 3, 0>>)}
CopyTickStep == FRESH_MS + 1
CopyMaxTick == CopyTickStep
TELE_TXT_SZ == 64

\* Snapshot texts as the CAN decoder can hold them (up to 127 characters)
CanTxtMax == 127
RawTexts == {TextNone, <<>>, Rep(88, 63), Rep(89, 64), Rep(90, CanTxtMax)}
TeleSamples ==
  {[now_ms |-> ts, i2c_temp_c |-> v, can_0x101 |-> a, can_0x120 |-> b] :
     ts \in TeleTs, v \in TeleTemps, a \in TeleTexts, b \in TeleTexts}

VARIABLES
  \* ---- Src/tft.c -------------------------------------------------------
  g_op,                 \* "NONE" | "FILL" | "BLIT"
  g_fill_color,
  g_fill_sent_pixels,
  g_blit_len,
  g_blit_sent,
  g_linebuf,            \* what g_linebuf was rendered from: [tmp, fg, bg]
  tft_win,              \* address window of the controller: [y0, y1]
  \* ---- Src/app_spi.c ---------------------------------------------------
  s_state,              \* "IDLE" | "BUSY"
  \* ---- Src/app_helpers.c: UI line manager ------------------------------
  s_ui,                 \* [0..UI_MAX_LINES-1 -> [used, dirty, fg, bg, text, last]]
  s_ui_rr,
  \* ---- Src/i2c.c, Src/app_platform.c -----------------------------------
  uwTick,               \* HAL_GetTick(), a TickBits-bit counter
  nextPollMs,
  g_i2c_ok,
  g_i2c_temp,
  g_i2c_last_err,
  halted,               \* the main context is in the loop of Error_Handler
  elapsed,              \* observation: milliseconds since boot, not wrapped
  fired_at,             \* observation: `elapsed' at the last two firings of
                        \* the sensor poll, -1 if none
  \* ---- Src/app_net.c ---------------------------------------------------
  g_udp,                \* "NULL" | "pcb"
  g_remote_ip,
  g_udp_port,
  g_tcp_port,
  g_tcp,                \* "NULL" | "pcb"
  g_tcp_state,          \* "TCP_DOWN" | "TCP_CONNECTING" | "TCP_UP"
  g_next_tcp_reconnect_ms,
  g_tcp_txbuf,
  g_tcp_txlen,
  lwip_tick,
  send_tick,
  g_udp_last,
  g_tcp_last,
  lwip,                 \* the TCP pcb inside lwIP: its state, the callbacks
                        \* registered on it, the messages written to it and
                        \* not yet acknowledged, the remote it connects to
  net_obs,              \* observation: what the last network call did
  net_hist,             \* observation: `elapsed' at the last two connection
                        \* attempts and at the last two telemetry periods
  \* ---- Src/app_net.c: telemetry record ---------------------------------
  tele,                 \* a sample, its serialized record and what a
                        \* receiver decodes from it
  \* ---- Src/can.c ------------------------------------------------------
  s_hb_seq,
  s_has101,
  s_has120,
  s_lux_x100,           \* uint32_t as <<hi, lo>>
  s_full,
  s_ir,
  s_last_txt,
  s_101_txt,
  s_120_txt,
  s_last_tick,
  s_101_tick,
  s_120_tick,
  can_hist,             \* observation: `elapsed' and the decoded text at the
                        \* last frame of each id, -1 if none
  cp,                   \* the main loop copying a snapshot text out of
                        \* s_101_txt or s_120_txt: [pc, id, i, out, done, last]
  \* ---- Src/usbd_cdc_if.c ----------------------------------------------
  g_cdc_line,           \* the first g_cdc_line_len characters of the array
  g_cdc_last_line,      \* the array up to the last byte ever written
  g_cdc_line_ready,
  g_cons_tx,            \* the ring, at the indices written so far
  g_cons_w,
  g_cons_r,
  g_prompt_pending,
  rl,                   \* the main loop inside CDC_ReadLine: [pc, i, out]
  cdc_obs,              \* observation: the lines completed by the receive
                        \* interrupt and the lines returned by CDC_ReadLine
  ml,                   \* the main loop inside cons_push_bytes or
                        \* CDC_ConsoleTxService: [pc, calls, i, next, n]
  cons_obs,             \* observation: the bytes stored in the ring while
                        \* the main loop prints, and the queue around a
                        \* dequeue of CDC_ConsoleTxService
  \* ---- Src/main.c -----------------------------------------------------
  main_obs,             \* observation: what held when __WFI was executed
  screen,               \* observation: [on, rows], what the display shows in
                        \* each text row once `on` (the frame memory)
  \* ---- observation of the render engine --------------------------------
  call,                 \* the function the last step called
  pre_op,               \* g_op when that call was made
  bus,                  \* what that call wrote on SPI1
  tx,                   \* summary of the data transferred since the last start
  \* ---- observation of the UI line manager ------------------------------
  ui_obs,               \* the call just made, if a UI line manager call
  \* ---- observation of the sensor poll ----------------------------------
  i2c_obs               \* the last App_I2C_Service call

tftVars == <<g_op, g_fill_color, g_fill_sent_pixels, g_blit_len, g_blit_sent,
             g_linebuf, tft_win>>
obsVars == <<call, pre_op, bus, tx>>
uiVars == <<s_ui, s_ui_rr, ui_obs>>
i2cVars == <<nextPollMs, g_i2c_ok, g_i2c_temp, g_i2c_last_err, i2c_obs,
             fired_at>>
sysVars == <<uwTick, elapsed, halted>>
netVars == <<g_udp, g_remote_ip, g_udp_port, g_tcp_port, g_tcp, g_tcp_state,
            g_next_tcp_reconnect_ms, g_tcp_txbuf, g_tcp_txlen, lwip_tick,
            send_tick, g_udp_last, g_tcp_last, lwip, net_obs, net_hist, tele>>
canVars == <<s_hb_seq, s_has101, s_has120, s_lux_x100, s_full, s_ir, s_last_txt,
            s_101_txt, s_120_txt, s_last_tick, s_101_tick, s_120_tick,
            can_hist>>
cdcVars == <<g_cdc_line, g_cdc_last_line, g_cdc_line_ready, g_cons_tx, g_cons_w,
            g_cons_r, g_prompt_pending, rl, cdc_obs, ml, cons_obs>>
progVars == <<canVars, cdcVars, main_obs, cp>>
ioVars == <<progVars, screen>>
\* What the calls of one component leave alone
notTFT == <<s_ui, s_ui_rr, i2cVars, sysVars, netVars, ioVars>>
notTFT_Task == <<s_ui, s_ui_rr, i2cVars, sysVars, netVars, progVars>>
notUI == <<i2cVars, sysVars, netVars, ioVars>>
notI2C == <<tftVars, s_state, obsVars, uiVars, uwTick, elapsed, netVars, ioVars>>

NoUiObs == [idx |-> -1, same |-> FALSE, subs |-> <<>>]
NoBus == [kind |-> "none"]
\* No address window has been set since the reset of the controller
NoWin == [y0 |-> -1, y1 |-> -1]
NoTx == [op |-> "NONE", from_idle |-> FALSE, color |-> 0, pixels |-> 0,
         bytes |-> 0, calls |-> 0, good |-> TRUE, intact |-> TRUE]

(***************************************************************************)
(* Src/tft.c                                                               *)
(***************************************************************************)
\* TFT_SetAddrWindow(0, y0, TFT_W - 1, y1): COL, ROW, RAMWR
TFT_SetAddrWindow(y0, y1) == [kind |-> "window", y0 |-> y0, y1 |-> y1]

\* TFT_Init: reset, SLPOUT, COLMOD, MADCTL, DISPON, then g_op = TFT_OP_NONE
TFT_Init ==
  /\ ~halted
  /\ UNCHANGED notTFT
  /\ ui_obs' = NoUiObs
  /\ g_op' = "NONE"
  /\ tft_win' = NoWin
  /\ UNCHANGED <<g_fill_color, g_fill_sent_pixels, g_blit_len, g_blit_sent,
                 g_linebuf, s_state>>
  /\ call' = "TFT_Init"
  /\ pre_op' = g_op
  /\ bus' = [kind |-> "init"]
  /\ tx' = [tx EXCEPT !.intact = FALSE]

\* TFT_FillColor_Async(color565): no busy check, the state is overwritten
TFT_FillColor_Async(color565) ==
  /\ ~halted
  /\ UNCHANGED notTFT
  /\ ui_obs' = NoUiObs
  /\ g_fill_color' = color565
  /\ g_fill_sent_pixels' = 0
  /\ tft_win' = [y0 |-> 0, y1 |-> U16(TFT_H - 1)]
  /\ g_op' = "FILL"
  /\ UNCHANGED <<g_blit_len, g_blit_sent, g_linebuf, s_state>>
  /\ call' = "TFT_FillColor_Async"
  /\ pre_op' = g_op
  /\ bus' = TFT_SetAddrWindow(0, U16(TFT_H - 1))
  /\ tx' = [op |-> "FILL", from_idle |-> (g_op = "NONE"), color |-> color565,
            pixels |-> 0, bytes |-> 0, calls |-> 0, good |-> TRUE,
            intact |-> TRUE]

\* strncpy(tmp, text, MAX_CHARS); tmp[MAX_CHARS] = 0; ellipsis if longer
ClipText(text) ==
  IF Len(text) > MAX_CHARS /\ MAX_CHARS >= 3
    THEN [i \in 1..MAX_CHARS |->
            IF i > MAX_CHARS - 3 THEN Chr_Dot ELSE text[i]]
    ELSE SubSeq(text, 1, IF Len(text) < MAX_CHARS THEN Len(text) ELSE MAX_CHARS)

\* The two early returns of TFT_DrawTextLine_Async
DrawTextLine_NoBusyCheck(y) == y >= TFT_H
DrawTextLine_Rejects(y) == y >= TFT_H \/ g_op # "NONE"

\* if (y > TFT_H - LINE_H) y = TFT_H - LINE_H
ClampY(y) == IF y > TFT_H - LINE_H THEN U16(TFT_H - LINE_H) ELSE y

\* The body of TFT_DrawTextLine_Async
DrawTextLine(y, text, fg, bg) ==
  /\ pre_op' = g_op
  /\ UNCHANGED <<g_fill_color, g_fill_sent_pixels, s_state>>
  /\ IF DrawTextLine_Rejects(y)
       THEN /\ UNCHANGED <<g_op, g_blit_len, g_blit_sent, g_linebuf, tft_win, tx>>
            /\ bus' = NoBus
       ELSE /\ g_linebuf' = [tmp |-> ClipText(text), fg |-> fg, bg |-> bg]
            /\ tft_win' = [y0 |-> ClampY(y), y1 |-> U16(ClampY(y) + LINE_H - 1)]
            /\ bus' = TFT_SetAddrWindow(ClampY(y), U16(ClampY(y) + LINE_H - 1))
            /\ g_blit_len' = TFT_W * LINE_H * 2
            /\ g_blit_sent' = 0
            /\ g_op' = "BLIT"
            /\ tx' = [op |-> "BLIT", from_idle |-> (g_op = "NONE"), color |-> 0,
                      pixels |-> 0, bytes |-> 0, calls |-> 0, good |-> TRUE,
                      intact |-> TRUE]

TFT_DrawTextLine_Async(y, text, fg, bg) ==
  /\ ~halted
  /\ UNCHANGED notTFT
  /\ ui_obs' = NoUiObs
  /\ call' = "TFT_DrawTextLine_Async"
  /\ DrawTextLine(y, text, fg, bg)

Min(a, b) == IF a < b THEN a ELSE b

\* FILL branch: pixels of this chunk
FillThisPixels_NoCap(remaining) == remaining
FillMaxPixels ==
  (IF TFT_CHUNK_BYTES % 2 = 1 THEN TFT_CHUNK_BYTES - 1 ELSE TFT_CHUNK_BYTES) \div 2
FillThisPixels(remaining) == Min(remaining, FillMaxPixels)

\* BLIT branch: pixels of this chunk
BlitThisPixels_NoCap(remaining) == remaining \div 2
BlitThisPixels(remaining) == Min(remaining \div 2, TFT_CHUNK_BYTES \div 2)

\* BLIT branch: first source pixel of this chunk, src = g_blit_ptr + sent/2
BlitSrc_Bytes(sent) == sent
BlitSrc(sent) == sent \div 2

\* Completion tests after a successful transmit
FillDone_Early(sent) == sent + FillMaxPixels >= TFT_PIXELS
FillDone(sent) == sent >= TFT_PIXELS
BlitDone_Never(sent, len) == FALSE
BlitDone(sent, len) == sent >= len

\* The sent counter after a failed transmit: the early return leaves it
SentOnFailure_Advances(old, new) == new
SentOnFailure(old, new) == old

\* A data chunk on the bus: `bytes` bytes; a fill chunk repeats (hi, lo), a
\* blit chunk is the big-endian image of source pixels src .. src + bytes/2 - 1
FillChunk(color, bytes) ==
  [kind |-> "data", bytes |-> U16(bytes), hi |-> U8(color \div 256),
   lo |-> color % 256, src |-> -1]
BlitChunk(src, bytes) ==
  [kind |-> "data", bytes |-> U16(bytes), hi |-> -1, lo |-> -1, src |-> src]

\* Observation: account a transmitted chunk to the running operation
TxAdd(chunk) ==
  [tx EXCEPT !.pixels = @ + chunk.bytes \div 2,
             !.bytes = @ + chunk.bytes,
             !.calls = @ + 1,
             !.good = @ /\ IF tx.op = "FILL"
                             THEN chunk.hi * 256 + chunk.lo = tx.color
                             ELSE chunk.src = tx.pixels]

\* The display: text rows of TFT_W * LINE_H pixels, of which the rows of the
\* first NLines entries of the line cache are observed
DisplayRows == NLines
RowPixels == TFT_W * LINE_H
FillRow(color) == [kind |-> "fill", color |-> color]
TextRow(buf) ==
  IF buf.tmp = <<>> THEN FillRow(buf.bg)
  ELSE [kind |-> "text", tmp |-> buf.tmp, fg |-> buf.fg, bg |-> buf.bg]
PartialRow == [kind |-> "partial"]

\* The frame memory after the pixels of one TFT_Task call: the controller
\* writes them into the address window, row after row, from the start of the
\* window; a row shows the fill colour or the line buffer once the operation
\* has written all of it
DisplayWrite(ok) ==
  IF ~screen.on \/ ~ok \/ g_op = "NONE" THEN screen
  ELSE IF g_op = "FILL"
    THEN LET sent == g_fill_sent_pixels +
                       FillThisPixels(TFT_PIXELS - g_fill_sent_pixels)
         IN  [screen EXCEPT !.rows =
                [r \in 0..(DisplayRows - 1) |->
                   IF r * RowPixels >= sent \/ (r + 1) * RowPixels <= g_fill_sent_pixels
                     THEN screen.rows[r]
                   ELSE IF (r + 1) * RowPixels <= sent
                     THEN FillRow(g_fill_color)
                   ELSE PartialRow]]
    ELSE LET sent == g_blit_sent +
                       BlitThisPixels(g_blit_len - g_blit_sent) * 2
             aligned == tft_win.y0 % LINE_H = 0
         IN  [screen EXCEPT !.rows =
                [r \in 0..(DisplayRows - 1) |->
                   IF (r + 1) * LINE_H <= tft_win.y0 \/ r * LINE_H > tft_win.y1
                     THEN screen.rows[r]
                   ELSE IF aligned /\ sent >= g_blit_len
                     THEN TextRow(g_linebuf)
                   ELSE PartialRow]]

\* TFT_Task with the result of HAL_SPI_Transmit (ok = HAL_OK)
TFT_Task(ok) ==
  /\ ~halted
  /\ UNCHANGED notTFT_Task
  /\ screen' = DisplayWrite(ok)
  /\ ui_obs' = NoUiObs
  /\ call' = "TFT_Task"
  /\ pre_op' = g_op
  /\ UNCHANGED <<g_fill_color, g_blit_len, g_linebuf, tft_win, s_state>>
  /\ CASE g_op = "NONE" ->
            /\ UNCHANGED <<g_op, g_fill_sent_pixels, g_blit_sent, tx>>
            /\ bus' = NoBus
       [] g_op = "FILL" ->
            \* uint32 arithmetic; no wrap since g_fill_sent_pixels <= TFT_PIXELS
            LET remaining == TFT_PIXELS - g_fill_sent_pixels
                this_pixels == FillThisPixels(remaining)
                chunk == FillChunk(g_fill_color, this_pixels * 2)
                sent == g_fill_sent_pixels + this_pixels
            IN  /\ UNCHANGED g_blit_sent
                /\ IF remaining = 0
                     THEN /\ g_op' = "NONE"
                          /\ bus' = NoBus
                          /\ UNCHANGED <<g_fill_sent_pixels, tx>>
                     ELSE IF ~ok
                       THEN /\ bus' = [chunk EXCEPT !.kind = "failed"]
                            /\ g_fill_sent_pixels' =
                                 SentOnFailure(g_fill_sent_pixels, sent)
                            /\ UNCHANGED <<g_op, tx>>
                       ELSE /\ bus' = chunk
                            /\ tx' = TxAdd(chunk)
                            /\ g_fill_sent_pixels' = sent
                            /\ g_op' = IF FillDone(sent) THEN "NONE" ELSE "FILL"
       [] g_op = "BLIT" ->
            \* uint32 arithmetic; no wrap since g_blit_sent <= g_blit_len
            LET remaining == g_blit_len - g_blit_sent
                this_pixels == BlitThisPixels(remaining)
                chunk == BlitChunk(BlitSrc(g_blit_sent), this_pixels * 2)
                sent == g_blit_sent + this_pixels * 2
            IN  /\ UNCHANGED g_fill_sent_pixels
                /\ IF remaining = 0
                     THEN /\ g_op' = "NONE"
                          /\ bus' = NoBus
                          /\ UNCHANGED <<g_blit_sent, tx>>
                     ELSE IF ~ok
                       THEN /\ bus' = [chunk EXCEPT !.kind = "failed"]
                            /\ g_blit_sent' = SentOnFailure(g_blit_sent, sent)
                            /\ UNCHANGED <<g_op, tx>>
                       ELSE /\ bus' = chunk
                            /\ tx' = TxAdd(chunk)
                            /\ g_blit_sent' = sent
                            /\ g_op' = IF BlitDone(sent, g_blit_len)
                                         THEN "NONE" ELSE "BLIT"

TFT_IsBusy_Never == FALSE
TFT_IsBusy == g_op # "NONE"

(***************************************************************************)
(* Src/app_spi.c                                                           *)
(***************************************************************************)
\* App_SPI_StartTxRx(tx, rx, len) with the result of
\* HAL_SPI_TransmitReceive_DMA (ok = HAL_OK); the TFT engine is not consulted
App_SPI_StartTxRx(len, ok) ==
  /\ ~halted
  /\ UNCHANGED notTFT
  /\ ui_obs' = NoUiObs
  /\ call' = "App_SPI_StartTxRx"
  /\ pre_op' = g_op
  /\ UNCHANGED tftVars
  /\ IF s_state # "IDLE" \/ len = 0
       THEN /\ UNCHANGED <<s_state, tx>>
            /\ bus' = NoBus
       ELSE IF ~ok
         THEN /\ s_state' = "IDLE"
              /\ bus' = NoBus
              /\ UNCHANGED tx
         ELSE /\ s_state' = "BUSY"
              /\ bus' = [kind |-> "dma", bytes |-> len]
              /\ tx' = [tx EXCEPT !.intact = FALSE]

\* HAL_SPI_TxRxCpltCallback / HAL_SPI_ErrorCallback for hspi1
HAL_SPI_Callback ==
  /\ UNCHANGED notTFT
  /\ ui_obs' = NoUiObs
  /\ s_state = "BUSY"
  /\ s_state' = "IDLE"
  /\ call' = "HAL_SPI_Callback"
  /\ pre_op' = g_op
  /\ bus' = NoBus
  /\ UNCHANGED <<tftVars, tx>>

(***************************************************************************)
(* Src/app_helpers.c: UI line manager                                      *)
(***************************************************************************)
Take(t, n) == SubSeq(t, 1, Min(Len(t), n))

\* strncmp(a, b, n) == 0: the strings agree up to their terminator or up to
\* n characters, whichever comes first
StrnEq(a, b, n) == Take(Append(a, 0), n) = Take(Append(b, 0), n)

\* strncpy(dst, src, n); dst[n] = 0
Strncpy(src, n) == Take(src, n)

ZeroLine == [used |-> 0, dirty |-> 0, fg |-> 0, bg |-> 0,
             text |-> <<>>, last |-> <<>>]

\* App_UI_ClearAll
App_UI_ClearAll ==
  /\ ~halted
  /\ UNCHANGED notUI
  /\ s_ui' = [i \in 0..(UI_MAX_LINES - 1) |-> ZeroLine]
  /\ s_ui_rr' = 0
  /\ call' = "App_UI_ClearAll"
  /\ ui_obs' = NoUiObs
  /\ pre_op' = g_op
  /\ bus' = NoBus
  /\ UNCHANGED <<tftVars, s_state, tx>>

\* App_UI_ClearLine(idx)
App_UI_ClearLine(idx) ==
  /\ ~halted
  /\ UNCHANGED notUI
  /\ s_ui' = IF idx >= UI_MAX_LINES THEN s_ui
                                    ELSE [s_ui EXCEPT ![idx] = ZeroLine]
  /\ call' = "App_UI_ClearLine"
  /\ ui_obs' = [NoUiObs EXCEPT !.idx = idx]
  /\ pre_op' = g_op
  /\ bus' = NoBus
  /\ UNCHANGED <<s_ui_rr, tftVars, s_state, tx>>

\* The comparison that decides whether App_UI_SetLine stores the text
SetLine_Changed(old, text) == ~StrnEq(old, text, UI_TEXT_MAX)

\* App_UI_SetLine(idx, fg, bg, text)
App_UI_SetLine(idx, fg, bg, text) ==
  /\ ~halted
  /\ UNCHANGED notUI
  /\ call' = "App_UI_SetLine"
  /\ pre_op' = g_op
  /\ bus' = NoBus
  /\ UNCHANGED <<s_ui_rr, tftVars, s_state, tx>>
  /\ IF idx >= UI_MAX_LINES
       THEN /\ UNCHANGED s_ui
            /\ ui_obs' = [NoUiObs EXCEPT !.idx = idx]
       ELSE /\ s_ui' = [s_ui EXCEPT ![idx] =
                 [used |-> 1,
                  dirty |-> IF SetLine_Changed(s_ui[idx].text, text)
                              THEN 1 ELSE @.dirty,
                  fg |-> fg,
                  bg |-> bg,
                  text |-> IF SetLine_Changed(s_ui[idx].text, text)
                             THEN Strncpy(text, UI_TEXT_MAX - 1) ELSE @.text,
                  last |-> @.last]]
            \* observation: the text as the line cache holds it is the text
            \* the line already holds
            /\ ui_obs' = [idx |-> idx,
                          same |-> (s_ui[idx].used = 1 /\
                                    Strncpy(text, UI_TEXT_MAX - 1) = s_ui[idx].text),
                          subs |-> <<>>]

\* ui_active_count: last used index + 1
ui_active_count ==
  LET used == {i \in 0..(UI_MAX_LINES - 1) : s_ui[i].used # 0}
  IN  IF used = {} THEN 0
      ELSE U8((CHOOSE i \in used : \A j \in used : j <= i) + 1)

\* The test of ui_pump_once on one line
LinePending(L) == L.used # 0 /\ (L.dirty # 0 \/ L.text # L.last)

\* The lines ui_pump_once looks at, in the order of its loop
PumpScan_FromZero(n) == [k \in 1..n |-> k - 1]
PumpScan(n) == [k \in 1..n |-> U8((s_ui_rr + (k - 1)) % n)]

\* The lines of the scan ui_pump_once hands to TFT_DrawTextLine_Async: the
\* loop returns after the first
PumpSubmits_All(cands) == cands
PumpSubmits(cands) == IF cands = <<>> THEN <<>> ELSE <<Head(cands)>>

InSeq(x, q) == \E k \in 1..Len(q) : q[k] = x

\* ui_pump_once
ui_pump_once ==
  /\ ~halted
  /\ UNCHANGED notUI
  /\ call' = "ui_pump_once"
  /\ IF TFT_IsBusy \/ ui_active_count = 0
       THEN /\ UNCHANGED <<s_ui, s_ui_rr, tftVars, s_state, tx>>
            /\ pre_op' = g_op
            /\ bus' = NoBus
            /\ ui_obs' = NoUiObs
       ELSE LET n == ui_active_count
                cands == SelectSeq(PumpScan(n), LAMBDA i : LinePending(s_ui[i]))
                subs == PumpSubmits(cands)
            IN  /\ ui_obs' = [NoUiObs EXCEPT !.subs = subs]
                /\ IF subs = <<>>
                     THEN /\ s_ui_rr' = 0
                          /\ UNCHANGED <<s_ui, tftVars, s_state, tx>>
                          /\ pre_op' = g_op
                          /\ bus' = NoBus
                     ELSE /\ DrawTextLine(U16(Head(subs) * UI_LINE_H),
                                          s_ui[Head(subs)].text,
                                          s_ui[Head(subs)].fg,
                                          s_ui[Head(subs)].bg)
                          /\ s_ui' = [i \in 0..(UI_MAX_LINES - 1) |->
                               IF InSeq(i, subs)
                                 THEN [s_ui[i] EXCEPT
                                         !.last = Strncpy(s_ui[i].text, UI_TEXT_MAX - 1),
                                         !.dirty = 0]
                                 ELSE s_ui[i]]
                          /\ s_ui_rr' = U8((subs[Len(subs)] + 1) % n)

(***************************************************************************)
(* Src/i2c.c: sensor poll service                                          *)
(***************************************************************************)
\* I2C_ErrStr(e), e a set of HAL_I2C_ERROR_* flags
I2C_ErrStr(e) ==
  IF e = {} THEN "NONE"
  ELSE IF "AF" \in e THEN "NACK"
  ELSE IF "TIMEOUT" \in e THEN "TIMEOUT"
  ELSE IF "BERR" \in e THEN "BUS"
  ELSE IF "ARLO" \in e THEN "ARLO"
  ELSE IF "OVR" \in e THEN "OVR"
  ELSE IF "DMA" \in e THEN "DMA"
  ELSE "UNKNOWN"

\* int16 little-endian: buf[0] = LSB, buf[1] = MSB; then (float)
Int16LE(b0, b1) ==
  LET u == b0 + 256 * b1
  IN  IF u >= 32768 THEN u - 65536 ELSE u

\* I2C1_BusRecover: up to 9 SCL pulses while SDA reads low, a STOP, then
\* HAL_I2C_DeInit and MX_I2C1_Init, which ends in Error_Handler if the HAL
\* refuses (init_ok = FALSE)
I2C1_BusRecover(sda_low, init_ok) ==
  [pulses |-> Min(sda_low, 9), stop |-> TRUE, reinit |-> init_ok]

\* The status I2C_ReadTemp_Fixed returns after a retry
FixedStatus_First(st1, st2) == st1
FixedStatus(st1, st2) == st2

\* The error string I2C_ReadTemp_Fixed leaves after a failed retry
RetryErr_First(e1, e2) == I2C_ErrStr(e1)
RetryErr(e1, e2) == I2C_ErrStr(e2)

\* I2C_ReadTemp_Fixed(&t) with the outcomes r1, r2 of the reads and the
\* inputs of the recovery: the status returned, whether and what was stored
\* in t, the new g_i2c_last_err, and what was done on the bus
I2C_ReadTemp_Fixed(r1, r2, sda_low, init_ok) ==
  IF r1.st = "HAL_OK"
    THEN [st |-> "HAL_OK", t |-> Int16LE(r1.b0, r1.b1), err |-> "NONE",
          reads |-> <<r1>>, recov |-> <<>>, returns |-> TRUE]
  ELSE IF ~I2C1_BusRecover(sda_low, init_ok).reinit
    THEN [st |-> r1.st, t |-> 0, err |-> I2C_ErrStr(r1.e),
          reads |-> <<r1>>, recov |-> <<I2C1_BusRecover(sda_low, init_ok)>>,
          returns |-> FALSE]
  ELSE IF r2.st = "HAL_OK"
    THEN [st |-> FixedStatus(r1.st, r2.st), t |-> Int16LE(r2.b0, r2.b1),
          err |-> "NONE", reads |-> <<r1, r2>>,
          recov |-> <<I2C1_BusRecover(sda_low, init_ok)>>, returns |-> TRUE]
    ELSE [st |-> FixedStatus(r1.st, r2.st), t |-> 0,
          err |-> RetryErr(r1.e, r2.e), reads |-> <<r1, r2>>,
          recov |-> <<I2C1_BusRecover(sda_low, init_ok)>>, returns |-> TRUE]

\* (int32_t)(a - b) on TickBits-bit counters
SignedDelta_Unsigned(a, b) == a - b
SignedDelta(a, b) ==
  LET d == (a - b) % TickMod
  IN  IF d >= TickMod \div 2 THEN d - TickMod ELSE d

\* The else branch of App_I2C_Service: the local t of a failed reading is
\* not stored
TempOnError_Stores(old, t) == t
TempOnError(old, t) == old

NoI2cObs == [fired |-> FALSE, reads |-> <<>>, recov |-> <<>>]

\* App_I2C_Service(now_ms), now_ms = HAL_GetTick()
App_I2C_Service(r1, r2, sda_low, init_ok) ==
  /\ ~halted
  /\ UNCHANGED notI2C
  /\ IF SignedDelta(uwTick, nextPollMs) < 0
       THEN /\ UNCHANGED <<nextPollMs, g_i2c_ok, g_i2c_temp, g_i2c_last_err,
                           halted, fired_at>>
            /\ i2c_obs' = NoI2cObs
       ELSE LET f == I2C_ReadTemp_Fixed(r1, r2, sda_low, init_ok)
            IN  /\ nextPollMs' = (uwTick + POLL_MS) % TickMod
                /\ g_i2c_last_err' = f.err
                /\ i2c_obs' = [fired |-> TRUE, reads |-> f.reads,
                               recov |-> f.recov]
                /\ halted' = ~f.returns
                /\ fired_at' = <<fired_at[2], elapsed>>
                /\ IF ~f.returns
                     THEN UNCHANGED <<g_i2c_ok, g_i2c_temp>>
                     ELSE IF f.st = "HAL_OK"
                       THEN /\ g_i2c_temp' = f.t
                            /\ g_i2c_ok' = 1
                       ELSE /\ g_i2c_ok' = 0
                            /\ g_i2c_temp' = TempOnError(g_i2c_temp, f.t)

\* SysTick: the millisecond counter advances
HAL_IncTick(step, max) ==
  /\ elapsed + step <= max
  /\ uwTick' = (uwTick + step) % TickMod
  /\ elapsed' = elapsed + step
  /\ UNCHANGED <<tftVars, s_state, obsVars, uiVars, i2cVars, halted, netVars, ioVars>>


(***************************************************************************)
(* Src/app_net.c: the telemetry record                                     *)
(***************************************************************************)
\* A uint32_t is a pair <<hi, lo>> of 16-bit halves; a int32_t is an integer

\* One step of the decimal conversion of printf: <<hi, lo>> / 10 and the rest
Div10(h, l) ==
  LET x == (h % 10) * 65536 + l
  IN  <<h \div 10, x \div 10, x % 10>>

\* "%lu"
RECURSIVE FmtULong(_, _)
FmtULong(h, l) ==
  IF h = 0 /\ l < 10 THEN <<48 + l>>
  ELSE LET d == Div10(h, l)
       IN  Append(FmtULong(d[1], d[2]), 48 + d[3])

\* The magnitude of a negative int32_t, as <<hi, lo>>
NegMagnitude(v) ==
  LET m == -(v + 1)
  IN  IF m % 65536 = 65535 THEN <<(m \div 65536) + 1, 0>>
                           ELSE <<m \div 65536, (m % 65536) + 1>>

\* "%ld"
FmtLong_NoSign(v) ==
  IF v < 0 THEN FmtULong(NegMagnitude(v)[1], NegMagnitude(v)[2])
           ELSE FmtULong(v \div 65536, v % 65536)
FmtLong(v) ==
  IF v < 0 THEN <<45>> \o FmtULong(NegMagnitude(v)[1], NegMagnitude(v)[2])
           ELSE FmtULong(v \div 65536, v % 65536)

\* snprintf(buf, size, ...): at most size - 1 characters are stored
Snprintf(size, text) == Take(text, size - 1)

\* The pieces of the format string
\*   {"ts":%lu,"i2c":%ld,"can101":"%s","can120":"%s"}\n
Fmt_ts == <<123, 34, 116, 115, 34, 58>>
Fmt_i2c == <<44, 34, 105, 50, 99, 34, 58>>
Fmt_can101 == <<44, 34, 99, 97, 110, 49, 48, 49, 34, 58, 34>>
Fmt_can120 == <<34, 44, 34, 99, 97, 110, 49, 50, 48, 34, 58, 34>>
Fmt_end == <<34, 125, 10>>

\* The record APP_NET_SendUDP and APP_NET_SendTCP build from a sample
\* t = [now_ms, i2c_temp_c, can_0x101, can_0x120] in a buffer of 256 bytes
TelemetryFull(t) ==
  Fmt_ts \o FmtULong(t.now_ms[1], t.now_ms[2])
         \o Fmt_i2c \o FmtLong(t.i2c_temp_c)
         \o Fmt_can101 \o t.can_0x101
         \o Fmt_can120 \o t.can_0x120 \o Fmt_end
TelemetryMsg(t) == Snprintf(256, TelemetryFull(t))

\* n, the number of bytes handed to the transport: the return value of
\* snprintf, clamped to the buffer
TelemetryLen(t) ==
  IF Len(TelemetryFull(t)) >= 256 THEN 256 - 1 ELSE Len(TelemetryFull(t))

\* The text fields of the sample: snprintf(t.can_0x101, sizeof(t.can_0x101),
\* "%s", CAN1_GetText_0x101())
SampleText_NoTrunc(txt) == txt
SampleText(txt) == Snprintf(64, txt)

\* ---- the receiver: decoding of the ts and i2c fields --------------------
IsDigit(c) == c >= 48 /\ c <= 57

\* The longest prefix of s made of digits
RECURSIVE DigitsOf(_)
DigitsOf(s) ==
  IF s = <<>> \/ ~IsDigit(Head(s)) THEN <<>>
  ELSE <<Head(s)>> \o DigitsOf(Tail(s))

\* The value of a sequence of digits, as <<hi, lo>>
RECURSIVE ParseULong(_)
ParseULong(ds) ==
  IF ds = <<>> THEN <<0, 0>>
  ELSE LET p == ParseULong(SubSeq(ds, 1, Len(ds) - 1))
           l == p[2] * 10 + (ds[Len(ds)] - 48)
       IN  <<(p[1] * 10 + l \div 65536) % 65536, l % 65536>>

\* The value of an optional '-' and a sequence of digits, as an integer
\* that stays within int32_t
ParseLong(s) ==
  IF s # <<>> /\ Head(s) = 45
    THEN LET m == ParseULong(DigitsOf(Tail(s)))
             d == IF m[2] = 0 THEN <<m[1] - 1, 65535>> ELSE <<m[1], m[2] - 1>>
         IN  IF d[1] >= 32768 THEN -2147483647 - 1
             ELSE -(d[1] * 65536 + d[2]) - 1
    ELSE LET m == ParseULong(DigitsOf(s))
         IN  IF m[1] >= 32768 THEN 2147483647 ELSE m[1] * 65536 + m[2]

IsPrefix(p, s) == Len(p) <= Len(s) /\ SubSeq(s, 1, Len(p)) = p
Drop(s, n) == SubSeq(s, n + 1, Len(s))

\* Decoding of a record: the number after {"ts": and the number after the
\* ,"i2c": that follows it; not ok if the record does not start like that
NoDecode == [ok |-> FALSE, ts |-> <<0, 0>>, i2c |-> 0]
TelemetryDecode(msg) ==
  IF ~IsPrefix(Fmt_ts, msg) THEN NoDecode
  ELSE LET a == Drop(msg, Len(Fmt_ts))
           tsd == DigitsOf(a)
           b == Drop(a, Len(tsd))
       IN  IF tsd = <<>> \/ ~IsPrefix(Fmt_i2c, b) THEN NoDecode
           ELSE LET c == Drop(b, Len(Fmt_i2c))
                    neg == c # <<>> /\ Head(c) = 45
                    id == DigitsOf(IF neg THEN Tail(c) ELSE c)
                IN  IF id = <<>> THEN NoDecode
                    ELSE [ok |-> TRUE, ts |-> ParseULong(tsd),
                          i2c |-> ParseLong(c)]

NoTele == [stage |-> "none"]
clientVars == <<g_udp, g_remote_ip, g_udp_port, g_tcp_port, g_tcp, g_tcp_state,
               g_next_tcp_reconnect_ms, g_tcp_txbuf, g_tcp_txlen, lwip_tick,
               send_tick, g_udp_last, g_tcp_last, lwip, net_obs, net_hist>>

\* A sample is put into a record
Telemetry_Serialize ==
  /\ tele.stage = "sample"
  /\ tele' = [tele EXCEPT !.stage = "record", !.msg = TelemetryMsg(tele.t)]
  /\ UNCHANGED <<tftVars, s_state, obsVars, uiVars, i2cVars, sysVars, clientVars,
                 ioVars>>

\* APP_NET_Service builds the sample from the snapshot texts
Telemetry_Sample ==
  /\ tele.stage = "raw"
  /\ tele' = [tele EXCEPT !.stage = "sample",
                          !.t.can_0x101 = SampleText(tele.raw[1]),
                          !.t.can_0x120 = SampleText(tele.raw[2])]
  /\ UNCHANGED <<tftVars, s_state, obsVars, uiVars, i2cVars, sysVars, clientVars,
                 ioVars>>

\* The receiver decodes the record
Telemetry_Decode ==
  /\ tele.stage = "record"
  /\ tele' = [tele EXCEPT !.stage = "decoded", !.out = TelemetryDecode(tele.msg)]
  /\ UNCHANGED <<tftVars, s_state, obsVars, uiVars, i2cVars, sysVars, clientVars,
                 ioVars>>


(***************************************************************************)
(* Src/can.c: CAN receive decoder and snapshot getters                     *)
(***************************************************************************)
notCAN == <<tftVars, s_state, obsVars, uiVars, i2cVars, sysVars, netVars,
           cdcVars, main_obs, screen, cp>>

\* u32_le, u16_le
u32_le(d, k) == <<d[k + 4] * 256 + d[k + 3], d[k + 2] * 256 + d[k + 1]>>
u16_le(d, k) == d[k + 1] + d[k + 2] * 256

\* s_lux_x100 / 100u, on the halves of a uint32_t
LuxOf(x) ==
  LET r == (x[1] % 100) * 65536 + x[2]
      q == <<x[1] \div 100, r \div 100>>
  IN  <<q[1] + (q[2] \div 65536), q[2] % 65536>>

\* "HB seq=%u" and "LIGHT lux=%lu full=%u ir=%u"
Txt_HB(seq) == Snprintf(128, <<72, 66, 32, 115, 101, 113, 61>> \o FmtULong(0, seq))
Txt_Light(lux, full, ir) ==
  Snprintf(128, <<76, 73, 71, 72, 84, 32, 108, 117, 120, 61>> \o FmtULong(lux[1], lux[2])
                \o <<32, 102, 117, 108, 108, 61>> \o FmtULong(0, full)
                \o <<32, 105, 114, 61>> \o FmtULong(0, ir))

\* The freshness window of the snapshot getters

\* HAL_GetTick() - tick on uint32_t
TickAge(now, tick) == (now - tick) % TickMod

\* An array of char read at index i (from 1); bytes never written are 0
ArrAt(a, i) == IF i <= Len(a) THEN a[i] ELSE 0

\* The text the callback decodes from a frame
FrameText(f) ==
  IF f.StdId = 257 /\ f.DLC >= 1 THEN Txt_HB(f.d[1])
  ELSE Txt_Light(LuxOf(u32_le(f.d, 0)), u16_le(f.d, 4), u16_le(f.d, 6))

\* HAL_CAN_RxFifo0MsgPendingCallback (interrupt context): rx_ok is the
\* result of HAL_CAN_GetRxMessage, f the frame it delivers
HAL_CAN_RxFifo0MsgPendingCallback(rx_ok, f) ==
  LET now == uwTick
      is101 == f.StdId = 257 /\ f.DLC >= 1
      is120 == f.StdId = 288 /\ f.DLC = 8
      txt == FrameText(f)
  IN  /\ ~halted
      /\ UNCHANGED notCAN
      /\ IF ~rx_ok \/ f.IDE # "CAN_ID_STD" \/ f.RTR # "CAN_RTR_DATA"
           THEN UNCHANGED canVars
           ELSE /\ s_last_tick' = now
                /\ IF is101
                     THEN /\ s_hb_seq' = f.d[1]
                          /\ s_has101' = 1
                          /\ s_101_tick' = now
                          /\ s_last_txt' = txt
                          /\ s_101_txt' = Take(Strncpy(txt, 128), 127)
                          /\ can_hist' = [can_hist EXCEPT !.at101 = elapsed,
                                                         !.txt101 = txt]
                          /\ UNCHANGED <<s_has120, s_lux_x100, s_full, s_ir,
                                         s_120_txt, s_120_tick>>
                   ELSE IF is120
                     THEN /\ s_lux_x100' = u32_le(f.d, 0)
                          /\ s_full' = u16_le(f.d, 4)
                          /\ s_ir' = u16_le(f.d, 6)
                          /\ s_has120' = 1
                          /\ s_120_tick' = now
                          /\ s_last_txt' = txt
                          /\ s_120_txt' = Take(Strncpy(txt, 128), 127)
                          /\ can_hist' = [can_hist EXCEPT !.at120 = elapsed,
                                                         !.txt120 = txt]
                          /\ UNCHANGED <<s_hb_seq, s_has101, s_101_txt,
                                         s_101_tick>>
                   ELSE UNCHANGED <<s_hb_seq, s_has101, s_has120, s_lux_x100,
                                    s_full, s_ir, s_last_txt, s_101_txt,
                                    s_120_txt, s_101_tick, s_120_tick, can_hist>>

\* CAN1_GetText_0x101, CAN1_GetText_0x120
CAN1_GetText_0x101 ==
  IF TickAge(uwTick, s_101_tick) > FRESH_MS THEN TextNone ELSE s_101_txt
CAN1_GetText_0x120 ==
  IF TickAge(uwTick, s_120_tick) > FRESH_MS THEN TextNone ELSE s_120_txt

\* CAN1_101_IsValid, CAN1_120_IsValid
CAN1_101_IsValid == IF CAN1_GetText_0x101 # TextNone THEN 1 ELSE 0
CAN1_120_IsValid == IF TickAge(uwTick, s_120_tick) <= FRESH_MS THEN 1 ELSE 0

\* The main loop copies a snapshot text (APP_NET_Service: snprintf(t.can_0x101,
\* sizeof(t.can_0x101), "%s", CAN1_GetText_0x101()), and the same for 0x120).
\* The getter returns the literal "none" or a pointer to the buffer the
\* receive interrupt writes; the copy then reads the buffer character by
\* character, with interrupts enabled.
NoCp == [pc |-> "out", id |-> 0, i |-> 0, out |-> <<>>, done |-> FALSE,
         last |-> <<>>]
SnapshotBuf(id) == IF id = 257 THEN s_101_txt ELSE s_120_txt
SnapshotTick(id) == IF id = 257 THEN s_101_tick ELSE s_120_tick
copyFrame == <<tftVars, s_state, obsVars, uiVars, i2cVars, sysVars, netVars,
               cdcVars, main_obs, screen, canVars>>

\* The call of the getter
Snapshot_Get(id) ==
  /\ ~halted
  /\ cp.pc = "out"
  /\ UNCHANGED copyFrame
  /\ cp' = IF TickAge(uwTick, SnapshotTick(id)) > FRESH_MS
             THEN [NoCp EXCEPT !.done = TRUE, !.id = id,
                               !.last = Snprintf(TELE_TXT_SZ, TextNone)]
             ELSE [cp EXCEPT !.pc = "copy", !.id = id, !.i = 1, !.out = <<>>]

\* One character of the copy: it ends at the terminator or when the field
\* of the sample is full
Snapshot_CopyChar ==
  LET c == ArrAt(SnapshotBuf(cp.id), cp.i)
  IN  /\ ~halted
      /\ cp.pc = "copy"
      /\ UNCHANGED copyFrame
      /\ cp' = IF c = 0 \/ cp.i > TELE_TXT_SZ - 1
                 THEN [NoCp EXCEPT !.done = TRUE, !.id = cp.id,
                                   !.last = cp.out]
                 ELSE [cp EXCEPT !.i = @ + 1, !.out = Append(@, c)]

(***************************************************************************)
(* Src/usbd_cdc_if.c: console line input and console output queue          *)
(***************************************************************************)
CDC_RX_LINE_MAX == 128
CDC_CONS_TX_SZ == 512
CONS_CHUNK == 64

notCDC == <<tftVars, s_state, uiVars, i2cVars, sysVars, netVars, canVars,
           screen, cp>>

g_cdc_line_len == Len(g_cdc_line)

\* memcpy(dst, src, n); dst[n] = 0
MemcpyStr(dst, src) ==
  src \o <<0>> \o SubSeq(dst, Len(src) + 2, Len(dst))

\* The console output ring [w, r, tx]
ConsState == [w |-> g_cons_w, r |-> g_cons_r, tx |-> g_cons_tx]
ConsNext(i) == IF i + 1 >= CDC_CONS_TX_SZ THEN 0 ELSE i + 1

\* cons_push_bytes(data, len): bytes are dropped once the ring is full
RECURSIVE cons_push_bytes(_, _)
cons_push_bytes(Q, data) ==
  IF data = <<>> \/ ConsNext(Q.w) = Q.r THEN Q
  ELSE cons_push_bytes([Q EXCEPT !.tx = (Q.w :> Head(data)) @@ Q.tx,
                                 !.w = ConsNext(Q.w)],
                       Tail(data))

\* The bytes queued in the ring, from the read index to the write index
ConsCount(Q) == (Q.w - Q.r) % CDC_CONS_TX_SZ
ConsQueued(Q) ==
  [k \in 1..ConsCount(Q) |-> Q.tx[(Q.r + k - 1) % CDC_CONS_TX_SZ]]

\* CDC_ConsoleTxIsEmpty
ConsoleTxIsEmpty(Q, prompt) == Q.r = Q.w /\ prompt = 0
CDC_ConsoleTxIsEmpty == ConsoleTxIsEmpty(ConsState, g_prompt_pending)

\* The receive interrupt works on [line, last, ready, Q, prompt, done]; done
\* are the lines it completes
RxState ==
  [line |-> g_cdc_line, last |-> g_cdc_last_line, ready |-> g_cdc_line_ready,
   Q |-> ConsState, prompt |-> g_prompt_pending, done |-> <<>>]

\* One byte of CDC_Receive_FS
RxByte(R, b) ==
  IF b = 27 THEN [R EXCEPT !.line = <<>>]
  ELSE IF b = 8 \/ b = 127
    THEN IF Len(R.line) > 0
           THEN [R EXCEPT !.line = SubSeq(R.line, 1, Len(R.line) - 1),
                          !.Q = cons_push_bytes(R.Q, <<8, 32, 8>>)]
           ELSE R
  ELSE IF b = 13 \/ b = 10
    THEN LET Q1 == cons_push_bytes(R.Q, <<13, 10>>)
             n == Min(Len(R.line), CDC_RX_LINE_MAX - 1)
         IN  IF Len(R.line) > 0
               THEN [R EXCEPT !.Q = Q1,
                              !.last = MemcpyStr(R.last, Take(R.line, n)),
                              !.line = <<>>,
                              !.ready = 1,
                              !.prompt = 1,
                              !.done = Append(R.done, Take(R.line, n))]
               ELSE [R EXCEPT !.Q = Q1, !.prompt = 1]
  ELSE IF b < 32 THEN R
  ELSE IF Len(R.line) < CDC_RX_LINE_MAX - 1
    THEN [R EXCEPT !.line = Append(R.line, b),
                   !.Q = cons_push_bytes(R.Q, <<b>>)]
    ELSE [R EXCEPT !.line = <<>>,
                   !.Q = cons_push_bytes(R.Q, <<13, 10, 69, 82, 82, 58, 32, 108, 105, 110, 101, 32, 116, 111, 111, 32, 108, 111, 110, 103, 13, 10>>),
                   !.prompt = 1]

\* The loop over the bytes of the packet (the state after each byte is
\* computed before the next byte is looked at)
RECURSIVE RxBytes(_, _)
RxBytes(R, buf) ==
  IF buf = <<>> THEN R
  ELSE LET R1 == RxByte(R, Head(buf))
       IN  IF R1.ready \in {0, 1} THEN RxBytes(R1, Tail(buf)) ELSE R1

NoRl == [pc |-> "out", i |-> 0, out |-> <<>>]
NoMl == [pc |-> "out", calls |-> <<>>, i |-> 0, next |-> 0, n |-> 0]
NoConsObs ==
  [track |-> "none", acc |-> <<>>, before |-> <<>>, meanwhile |-> <<>>,
   rolled |-> FALSE, prints |-> 0]

\* CDC_Receive_FS(Buf, Len): the USB receive interrupt; it can arrive
\* wherever the main loop is, except inside a critical section
CDC_Receive_FS(Buf) ==
  LET R == RxBytes(RxState, Buf)
      q0 == ConsQueued(ConsState)
      q1 == ConsQueued(R.Q)
      accepted == SubSeq(q1, Len(q0) + 1, Len(q1))
  IN  /\ ~halted
      /\ UNCHANGED <<notCDC, obsVars, rl, main_obs, ml>>
      /\ cons_obs' =
           IF cons_obs.track = "print"
             THEN [cons_obs EXCEPT !.acc = @ \o accepted]
           ELSE IF cons_obs.track = "service"
             THEN [cons_obs EXCEPT !.meanwhile = @ \o accepted]
           ELSE cons_obs
      /\ g_cdc_line' = R.line
      /\ g_cdc_last_line' = R.last
      /\ g_cdc_line_ready' = R.ready
      /\ g_cons_tx' = R.Q.tx
      /\ g_cons_w' = R.Q.w
      /\ g_cons_r' = R.Q.r
      /\ g_prompt_pending' = R.prompt
      /\ cdc_obs' = [cdc_obs EXCEPT !.rx = @ + 1,
                                    !.entered = @ \o R.done]

\* CDC_ConsolePrintSafe(s)
CDC_ConsolePrintSafe(Q, str) ==
  LET Q1 == cons_push_bytes(Q, <<13, 27, 91, 50, 75>>)
      Q2 == cons_push_bytes(Q1, <<13, 10>>)
      Q3 == cons_push_bytes(Q2, str)
      Q4 == IF str = <<>> \/ (str[Len(str)] # 10 /\ str[Len(str)] # 13)
              THEN cons_push_bytes(Q3, <<13, 10>>) ELSE Q3
      snap == Take(g_cdc_line, CDC_RX_LINE_MAX - 1)
  IN  cons_push_bytes(Q4, snap)

\* How many bytes CDC_ConsoleTxService takes from the ring for one chunk
\* (the loop runs until the ring is empty or the chunk is full)
ConsDequeue(Q, n) ==
  LET k == IF n >= CONS_CHUNK THEN 0 ELSE Min(ConsCount(Q), CONS_CHUNK - n)
  IN  [Q |-> [Q EXCEPT !.r = (Q.r + k) % CDC_CONS_TX_SZ], n |-> n + k]

\* The rollback: the read index steps back n times, wrapping below 0
ConsRollback(Q, n) == [Q EXCEPT !.r = (Q.r - n) % CDC_CONS_TX_SZ]

\* CDC_ConsoleTxService; res is the result of CDC_Transmit_FS:
\* "USBD_OK", "USBD_BUSY" or "USBD_FAIL"
ConsoleTxService(Q, prompt, res) ==
  IF Q.r = Q.w /\ prompt = 0 THEN [Q |-> Q, prompt |-> prompt, sent |-> <<>>]
  ELSE LET Q1 == IF Q.r = Q.w THEN cons_push_bytes(Q, <<62, 32>>) ELSE Q
           p1 == IF Q.r = Q.w THEN 0 ELSE prompt
           d == ConsDequeue(Q1, 0)
           chunk == SubSeq(ConsQueued(Q1), 1, d.n)
       IN  IF d.n > 0 /\ res = "USBD_BUSY"
             THEN [Q |-> ConsRollback(d.Q, d.n), prompt |-> p1, sent |-> <<>>]
             ELSE [Q |-> d.Q, prompt |-> p1,
                   sent |-> IF res = "USBD_OK" THEN chunk ELSE <<>>]

\* App_USB_Service: the first service of a main-loop iteration modelled here
App_USB_Service(res) ==
  LET o == ConsoleTxService(ConsState, g_prompt_pending, res)
  IN  /\ ~halted
      /\ call \in {"boot", "__WFI", "no_idle"}
      /\ UNCHANGED <<notCDC, g_cdc_line, g_cdc_last_line, g_cdc_line_ready, rl,
                     cdc_obs, ml, cons_obs, pre_op, bus, tx>>
      /\ call' = "App_USB_Service"
      /\ g_cons_tx' = o.Q.tx
      /\ g_cons_w' = o.Q.w
      /\ g_cons_r' = o.Q.r
      /\ g_prompt_pending' = o.prompt
      /\ main_obs' = NoMainObs

\* strncpy(out, g_cdc_last_line, out_sz - 1) stops at the terminator or
\* after out_sz - 1 characters
ReadLine_CopyDone(i, c, out_sz) == c = 0 \/ i > out_sz - 1

\* app_helpers.c:53-55: the status variables at file scope of
\* app_helpers.c, which shadow those of i2c.c; no statement of app_helpers.c
\* assigns them
helpers_g_i2c_temp == 0
helpers_g_i2c_ok == 0
helpers_g_i2c_last_err == TextNone

\* The texts of print_i2c_line, print_status_line and print_status_json for
\* a status [ok, temp, err] and the text of CAN1_GetLastText
I2cLine(ok, temp, err) ==
  Snprintf(128,
    IF ok # 0
      THEN <<91, 73, 50, 67, 93, 58, 32, 84, 101, 109, 112, 58,
            32>> \o FmtLong(temp)
           \o <<32, 67, 13, 10>>
      ELSE <<91, 73, 50, 67, 93, 58, 32, 69, 82, 82, 58, 32>>
           \o err \o <<13, 10>>)
StatusLine(ok, temp, err, can) ==
  LET i2c_txt == IF ok # 0
                   THEN Snprintf(64, <<84, 101, 109, 112, 58,
                         32>> \o FmtLong(temp)
                                     \o <<32, 67>>)
                   ELSE Snprintf(64, <<69, 82, 82, 58, 32>> \o err)
  IN  Snprintf(256, <<91, 73, 50, 67, 93, 58, 32>> \o i2c_txt
                    \o <<32, 124, 32, 91, 67, 65, 78, 93, 58, 32>>
                    \o can \o <<13, 10>>)
StatusJson(ok, temp, err, can) ==
  Snprintf(256,
    IF ok # 0
      THEN <<123, 34, 105, 50, 99, 34, 58, 123, 34, 111, 107, 34, 58, 116,
            114, 117, 101, 44, 34, 116, 101, 109, 112, 95, 99, 34, 58>>
           \o FmtLong(temp)
           \o <<125, 44, 34, 99, 97, 110, 34, 58, 123, 34, 116, 101, 120,
                 116, 34, 58, 34>>
           \o can \o <<34, 125, 125, 13, 10>>
      ELSE <<123, 34, 105, 50, 99, 34, 58, 123, 34, 111, 107, 34, 58, 102,
            97, 108, 115, 101, 44, 34, 101, 114, 114, 34, 58, 34>>
           \o err
           \o <<34, 125, 44, 34, 99, 97, 110, 34, 58, 123, 34, 116, 101, 120,
                 116, 34, 58, 34>>
           \o can \o <<34, 125, 125, 13, 10>>)

\* CAN1_GetLastText
CAN1_GetLastText == s_last_txt

\* print_i2c_line, print_status_line, print_status_json: the text handed to
\* CDC_ConsolePrintSafe
print_i2c_line ==
  I2cLine(helpers_g_i2c_ok, helpers_g_i2c_temp, helpers_g_i2c_last_err)
print_status_line ==
  StatusLine(helpers_g_i2c_ok, helpers_g_i2c_temp, helpers_g_i2c_last_err,
             CAN1_GetLastText)
print_status_json ==
  StatusJson(helpers_g_i2c_ok, helpers_g_i2c_temp, helpers_g_i2c_last_err,
             CAN1_GetLastText)

\* The command dispatch of App_CLI_Service for the lines entered here, of
\* which the status commands are the only commands: leading blanks skipped,
\* then the status commands, nothing printed for an empty command and the
\* error text otherwise.  CLI_Output is the text
\* handed to CDC_ConsolePrintSafe, if any
RECURSIVE SkipBlanks(_)
SkipBlanks(t) ==
  IF t # <<>> /\ (Head(t) = 32 \/ Head(t) = 9) THEN SkipBlanks(Tail(t)) ELSE t
CmdStatus == <<115, 116, 97, 116, 117, 115>>
CmdStatusJson == <<115, 116, 97, 116, 117, 115, 32, 106, 115, 111, 110>>
CmdGetI2c == <<103, 101, 116, 32, 105, 50, 99>>
CLI_Output(cmd) ==
  LET p == SkipBlanks(cmd)
  IN  IF p = CmdStatus THEN print_status_line
      ELSE IF p = CmdStatusJson THEN print_status_json
      ELSE IF p = CmdGetI2c THEN print_i2c_line
      ELSE IF p = <<>> THEN <<>>
      ELSE <<69, 82, 82, 58, 32, 117, 110, 107, 110, 111, 119, 110, 32, 99,
            109, 100, 46, 32, 84, 121, 112, 101, 32, 39, 104, 101, 108, 112,
                  39, 13, 10>>
App_CLI_Dispatch(Q, cmd) ==
  IF SkipBlanks(cmd) = <<>> THEN Q
  ELSE CDC_ConsolePrintSafe(Q, CLI_Output(cmd))

\* App_CLI_Service up to the test of g_cdc_line_ready in CDC_ReadLine and the
\* critical section that clears it
CDC_ReadLine_Begin ==
  /\ ~halted
  /\ rl.pc = "out"
  /\ UNCHANGED <<notCDC, g_cdc_line, g_cdc_last_line, g_cons_tx, g_cons_w,
                 g_cons_r, g_prompt_pending, main_obs, ml, cons_obs, pre_op,
                 bus, tx>>
  /\ IF g_cdc_line_ready = 0
       THEN /\ call' = "App_CLI_Service"
            /\ UNCHANGED <<g_cdc_line_ready, rl, cdc_obs>>
       ELSE /\ call' = "CDC_ReadLine"
            /\ g_cdc_line_ready' = 0
            /\ rl' = [pc |-> "copy", i |-> 1, out |-> <<>>]
            /\ UNCHANGED cdc_obs

\* One character of the strncpy of CDC_ReadLine; after the last one
\* CDC_ReadLine returns 1 and App_CLI_Service dispatches the command
CDC_ReadLine_Copy ==
  LET c == ArrAt(g_cdc_last_line, rl.i)
      Q == App_CLI_Dispatch(ConsState, rl.out)
  IN  /\ ~halted
      /\ rl.pc = "copy"
      /\ UNCHANGED <<notCDC, g_cdc_line, g_cdc_last_line, g_cdc_line_ready,
                     g_prompt_pending, main_obs, ml, cons_obs, pre_op, bus, tx>>
      /\ IF ReadLine_CopyDone(rl.i, c, CDC_RX_LINE_MAX)
           THEN /\ rl' = NoRl
                /\ call' = "App_CLI_Service"
                /\ cdc_obs' = [cdc_obs EXCEPT !.returned = Append(@, rl.out),
                                              !.printed = CLI_Output(rl.out)]
                /\ g_cons_tx' = Q.tx
                /\ g_cons_w' = Q.w
                /\ g_cons_r' = Q.r
           ELSE /\ rl' = [rl EXCEPT !.i = @ + 1, !.out = Append(@, c)]
                /\ UNCHANGED <<call, cdc_obs, g_cons_tx, g_cons_w, g_cons_r>>

\* The cons_push_bytes calls of CDC_ConsolePrintSafe(s) with the typed line
\* snap: calls of length 0 do nothing
PrintCalls(str, snap) ==
  SelectSeq(<< <<13, 27, 91, 50, 75>>, <<13, 10>>, str,
               IF str = <<>> \/ (str[Len(str)] # 10 /\ str[Len(str)] # 13)
                 THEN <<13, 10>> ELSE <<>>,
               snap >>,
            LAMBDA c : c # <<>>)

\* The main loop leaves a cons_push_bytes call: the next call of
\* CDC_ConsolePrintSafe, if any
NextCall(m) ==
  IF Len(m.calls) <= 1 THEN NoMl
  ELSE [m EXCEPT !.pc = "test", !.calls = Tail(@), !.i = 1]

\* CDC_ConsolePrintSafe(s) called by the main loop: the typed line is
\* copied with interrupts disabled; the cons_push_bytes calls that follow
\* run with interrupts enabled
CDC_ConsolePrintSafe_Begin(str) ==
  /\ ~halted
  /\ ml.pc = "out"
  /\ rl.pc = "out"
  /\ UNCHANGED <<notCDC, obsVars, main_obs, g_cdc_line, g_cdc_last_line,
                 g_cdc_line_ready, g_cons_tx, g_cons_w, g_cons_r,
                 g_prompt_pending, rl, cdc_obs>>
  /\ ml' = [NoMl EXCEPT !.pc = "test", !.i = 1,
                        !.calls = PrintCalls(str, Take(g_cdc_line,
                                                       CDC_RX_LINE_MAX - 1))]
  /\ cons_obs' = [cons_obs EXCEPT
                    !.track = "print",
                    !.acc = IF cons_obs.track = "print" THEN @
                            ELSE ConsQueued(ConsState),
                    !.prints = @ + 1]

\* cons_push_bytes in the main loop, one iteration in three steps.
\* next = g_cons_w + 1 (wrapped); if (next == g_cons_r) break;
cons_push_bytes_Test ==
  /\ ~halted
  /\ ml.pc = "test"
  /\ UNCHANGED <<notCDC, obsVars, main_obs, g_cdc_line, g_cdc_last_line,
                 g_cdc_line_ready, g_cons_tx, g_cons_w, g_cons_r,
                 g_prompt_pending, rl, cdc_obs, cons_obs>>
  /\ ml' = IF ConsNext(g_cons_w) = g_cons_r THEN NextCall(ml)
           ELSE [ml EXCEPT !.pc = "store", !.next = ConsNext(g_cons_w)]

\* g_cons_tx[g_cons_w] = data[i];
cons_push_bytes_Store ==
  /\ ~halted
  /\ ml.pc = "store"
  /\ UNCHANGED <<notCDC, obsVars, main_obs, g_cdc_line, g_cdc_last_line,
                 g_cdc_line_ready, g_cons_w, g_cons_r, g_prompt_pending, rl,
                 cdc_obs>>
  /\ g_cons_tx' = (g_cons_w :> Head(ml.calls)[ml.i]) @@ g_cons_tx
  /\ ml' = [ml EXCEPT !.pc = "commit"]
  /\ cons_obs' = [cons_obs EXCEPT !.acc = Append(@, Head(ml.calls)[ml.i])]

\* g_cons_w = next; and the loop test
cons_push_bytes_Commit ==
  /\ ~halted
  /\ ml.pc = "commit"
  /\ UNCHANGED <<notCDC, obsVars, main_obs, g_cdc_line, g_cdc_last_line,
                 g_cdc_line_ready, g_cons_tx, g_cons_r, g_prompt_pending, rl,
                 cdc_obs, cons_obs>>
  /\ g_cons_w' = ml.next
  /\ ml' = IF ml.i < Len(Head(ml.calls))
             THEN [ml EXCEPT !.pc = "test", !.i = @ + 1]
             ELSE NextCall(ml)

\* CDC_ConsoleTxService in the main loop, in three steps.  Up to the end of
\* the first critical section: the prompt, then the dequeue of one chunk
CDC_ConsoleTxService_Dequeue ==
  LET Q == ConsState
      Q1 == IF Q.r = Q.w THEN cons_push_bytes(Q, <<62, 32>>) ELSE Q
      d == ConsDequeue(Q1, 0)
  IN  /\ ~halted
      /\ ml.pc = "out"
      /\ rl.pc = "out"
      /\ UNCHANGED <<notCDC, obsVars, main_obs, g_cdc_line, g_cdc_last_line,
                     g_cdc_line_ready, rl, cdc_obs>>
      /\ IF Q.r = Q.w /\ g_prompt_pending = 0
           THEN UNCHANGED <<g_cons_tx, g_cons_w, g_cons_r, g_prompt_pending,
                            ml, cons_obs>>
           ELSE /\ g_cons_tx' = d.Q.tx
                /\ g_cons_w' = d.Q.w
                /\ g_cons_r' = d.Q.r
                /\ g_prompt_pending' = IF Q.r = Q.w THEN 0 ELSE g_prompt_pending
                /\ ml' = IF d.n > 0
                           THEN [NoMl EXCEPT !.pc = "transmit", !.n = d.n]
                           ELSE NoMl
                /\ cons_obs' = [cons_obs EXCEPT !.track = "service",
                                                !.before = ConsQueued(Q1),
                                                !.meanwhile = <<>>,
                                                !.rolled = FALSE]

\* res = CDC_Transmit_FS(chunk, n), with interrupts enabled
CDC_ConsoleTxService_Transmit(res) ==
  /\ ~halted
  /\ ml.pc = "transmit"
  /\ UNCHANGED <<notCDC, obsVars, main_obs, g_cdc_line, g_cdc_last_line,
                 g_cdc_line_ready, g_cons_tx, g_cons_w, g_cons_r,
                 g_prompt_pending, rl, cdc_obs>>
  /\ IF res = "USBD_BUSY"
       THEN /\ ml' = [ml EXCEPT !.pc = "rollback"]
            /\ UNCHANGED cons_obs
       ELSE /\ ml' = NoMl
            /\ cons_obs' = [cons_obs EXCEPT !.track = "none"]

\* The second critical section: the read index goes back by n
CDC_ConsoleTxService_Rollback ==
  /\ ~halted
  /\ ml.pc = "rollback"
  /\ UNCHANGED <<notCDC, obsVars, main_obs, g_cdc_line, g_cdc_last_line,
                 g_cdc_line_ready, g_cons_tx, g_cons_w, g_prompt_pending, rl,
                 cdc_obs>>
  /\ g_cons_r' = ConsRollback(ConsState, ml.n).r
  /\ ml' = NoMl
  /\ cons_obs' = [cons_obs EXCEPT !.rolled = TRUE]

(***************************************************************************)
(* Src/main.c: the end of a main-loop iteration                            *)
(***************************************************************************)
\* if (App_USBLog_IsEmpty() && !TFT_IsBusy())
Main_IdleTest ==
  /\ ~halted
  /\ call = "App_CLI_Service"
  /\ UNCHANGED <<notCDC, cdcVars, main_obs, pre_op, bus, tx>>
  /\ call' = IF CDC_ConsoleTxIsEmpty /\ ~TFT_IsBusy THEN "idle_test"
             ELSE "no_idle"

\* __WFI(): the core halts until the next interrupt
Main_WFI ==
  /\ ~halted
  /\ call = "idle_test"
  /\ UNCHANGED <<notCDC, cdcVars, pre_op, bus, tx>>
  /\ call' = "__WFI"
  /\ main_obs' = [wfi |-> TRUE, cons_empty |-> CDC_ConsoleTxIsEmpty,
                  busy |-> TFT_IsBusy]

(***************************************************************************)
(* Src/app_net.c: UDP/TCP telemetry client                                 *)
(***************************************************************************)
\* The client state the functions below work on
NetState ==
  [udp |-> g_udp, ip |-> g_remote_ip, uport |-> g_udp_port,
   tport |-> g_tcp_port, tcp |-> g_tcp, st |-> g_tcp_state,
   next |-> g_next_tcp_reconnect_ms, txbuf |-> g_tcp_txbuf,
   txlen |-> g_tcp_txlen, lwip |-> lwip]

NoPcb == [pcb |-> "none", cbs |-> {}, unacked |-> 0, to |-> <<>>]

\* parse_ip / ipaddr_aton
parse_ip(ip_str) == ip_str \in ValidIps

\* app_tcp_close: callbacks removed, tcp_close, state reset
app_tcp_close_KeepsTx(N) ==
  [N EXCEPT !.lwip = IF N.tcp # "NULL" THEN NoPcb ELSE @,
            !.tcp = "NULL", !.st = "TCP_DOWN"]
app_tcp_close(N) ==
  [N EXCEPT !.lwip = IF N.tcp # "NULL" THEN NoPcb ELSE @,
            !.tcp = "NULL", !.st = "TCP_DOWN", !.txlen = 0]

\* tcp_force_abort: tcp_abort, state reset
tcp_force_abort_KeepsState(N) ==
  [N EXCEPT !.lwip = IF N.tcp # "NULL" THEN NoPcb ELSE @,
            !.tcp = "NULL", !.txlen = 0]
tcp_force_abort(N) ==
  [N EXCEPT !.lwip = IF N.tcp # "NULL" THEN NoPcb ELSE @,
            !.tcp = "NULL", !.st = "TCP_DOWN", !.txlen = 0]

\* on_tcp_sent: lwIP reports an acknowledgment
on_tcp_sent(N) ==
  [N EXCEPT !.txlen = 0,
            !.lwip.unacked = IF @ > 0 THEN @ - 1 ELSE 0]

\* on_tcp_err: lwIP has freed the pcb
on_tcp_err_KeepsTx(N) ==
  [N EXCEPT !.tcp = "NULL", !.st = "TCP_DOWN", !.lwip = NoPcb]
on_tcp_err(N) ==
  [N EXCEPT !.tcp = "NULL", !.st = "TCP_DOWN", !.txlen = 0, !.lwip = NoPcb]

\* on_tcp_recv: p = "NULL" is the remote close
on_tcp_recv(N, p) == IF p = "NULL" THEN app_tcp_close(N) ELSE N

\* on_tcp_connected
on_tcp_connected_IgnoresErr(N, err) ==
  [N EXCEPT !.st = "TCP_UP",
            !.lwip.pcb = "established",
            !.lwip.cbs = {"recv", "sent", "err"}]
on_tcp_connected(N, err) ==
  IF err # "ERR_OK" THEN tcp_force_abort(N)
  ELSE [N EXCEPT !.st = "TCP_UP",
                 !.lwip.pcb = "established",
                 !.lwip.cbs = {"recv", "sent", "err"}]

\* The callbacks lwIP can make from MX_LWIP_Process, ethernetif_input and
\* sys_check_timeouts, given the pcb and the callbacks registered on it
LwipEvents(L) ==
  {"none"}
  \cup (IF L.pcb = "connecting" THEN {"connected", "connect_failed"} ELSE {})
  \cup (IF L.pcb # "none" /\ "err" \in L.cbs THEN {"err"} ELSE {})
  \cup (IF L.pcb = "established" /\ "recv" \in L.cbs
          THEN {"recv_data", "recv_close"} ELSE {})
  \cup (IF L.pcb = "established" /\ "sent" \in L.cbs /\ L.unacked > 0
          THEN {"sent"} ELSE {})

LwipCallback(N, ev) ==
  CASE ev = "connected" -> on_tcp_connected(N, "ERR_OK")
    [] ev = "connect_failed" -> on_tcp_connected(N, "ERR_ABRT")
    [] ev = "err" -> on_tcp_err(N)
    [] ev = "recv_data" -> on_tcp_recv(N, "pbuf")
    [] ev = "recv_close" -> on_tcp_recv(N, "NULL")
    [] ev = "sent" -> on_tcp_sent(N)
    [] OTHER -> N

\* tcp_start_connect(now_ms); conn is what tcp_new_ip_type and tcp_connect
\* return: "ok", "no_pcb" or "conn_err"
tcp_start_connect(N, now_ms, conn) ==
  IF N.st = "TCP_UP" \/ N.st = "TCP_CONNECTING" THEN N
  ELSE IF conn = "no_pcb"
    THEN [N EXCEPT !.tcp = "NULL", !.st = "TCP_DOWN",
                   !.next = (now_ms + ReconnectMs) % TickMod]
  ELSE IF conn = "conn_err"
    THEN [tcp_force_abort([N EXCEPT !.tcp = "pcb", !.st = "TCP_CONNECTING"])
            EXCEPT !.next = (now_ms + ReconnectMs) % TickMod]
  ELSE [N EXCEPT !.tcp = "pcb", !.st = "TCP_CONNECTING",
                 !.lwip = [pcb |-> "connecting", cbs |-> {"err", "connected"},
                           unacked |-> 0, to |-> <<N.ip, N.tport>>]]

\* APP_NET_TcpIsConnected
APP_NET_TcpIsConnected(N) == N.st = "TCP_UP" /\ N.tcp # "NULL"

\* The test of APP_NET_Poll for a reconnect
ReconnectDue(N, now_ms) ==
  /\ ~APP_NET_TcpIsConnected(N)
  /\ \/ N.next = 0
     \/ SignedDelta(now_ms, N.next) >= 0

\* APP_NET_Poll(now_ms): the lwIP pump with the callback ev it makes, then
\* the reconnect
APP_NET_Poll(N, now_ms, ev, conn) ==
  LET N1 == LwipCallback(N, ev)
  IN  IF ReconnectDue(N1, now_ms)
        THEN [tcp_start_connect(N1, now_ms, conn)
                EXCEPT !.next = (now_ms + ReconnectMs) % TickMod]
        ELSE N1

\* The guards of APP_NET_SendTCP
SendTCP_Rejects_NoGuard(N) == ~APP_NET_TcpIsConnected(N)
SendTCP_Rejects(N) == ~APP_NET_TcpIsConnected(N) \/ N.txlen # 0

\* APP_NET_SendTCP(t); res is what tcp_write and tcp_output return: "ok",
\* "write_err" or "output_err"
APP_NET_SendTCP(N, t, res) ==
  IF SendTCP_Rejects(N) THEN [N |-> N, ret |-> FALSE, transport |-> "none"]
  ELSE LET msg == TelemetryMsg(t)
           N1 == [N EXCEPT !.txbuf = msg, !.txlen = Len(msg)]
       IN  IF res = "write_err"
             THEN [N |-> [N1 EXCEPT !.txlen = 0], ret |-> FALSE,
                   transport |-> res]
           ELSE IF res = "output_err"
             THEN [N |-> [N1 EXCEPT !.txlen = 0, !.lwip.unacked = @ + 1],
                   ret |-> FALSE, transport |-> res]
           ELSE [N |-> [N1 EXCEPT !.lwip.unacked = @ + 1], ret |-> TRUE,
                 transport |-> res]

\* APP_NET_SendUDP(t); res is what udp_new_ip_type, pbuf_alloc and
\* udp_sendto return: "ok", "no_pcb", "no_pbuf" or "send_err"
APP_NET_SendUDP(N, t, res) ==
  LET N1 == IF N.udp = "NULL" /\ res # "no_pcb" THEN [N EXCEPT !.udp = "pcb"]
            ELSE N
  IN  IF N1.udp = "NULL" THEN [N |-> N1, ret |-> FALSE, dgram |-> <<>>]
      ELSE IF res = "no_pbuf" THEN [N |-> N1, ret |-> FALSE, dgram |-> <<>>]
      ELSE [N |-> N1, ret |-> (res # "send_err"),
            dgram |-> <<[to |-> <<N1.ip, N1.uport>>, msg |-> TelemetryMsg(t)]>>]

\* What a claim looks at in the client state
Snap(N) == [st |-> N.st, tcp |-> N.tcp, txlen |-> N.txlen, txbuf |-> N.txbuf,
            next |-> N.next]
NoSnap == [st |-> "none", tcp |-> "none", txlen |-> 0, txbuf |-> <<>>,
           next |-> 0]
NoNetObs ==
  [fn |-> "none", ret |-> FALSE, now |-> 0, at |-> 0, polled |-> FALSE,
   ev |-> "none", pre_ev |-> NoSnap, post_ev |-> NoSnap, attempt |-> <<>>,
   send_due |-> FALSE, udp |-> <<>>, tcp |-> <<>>]

\* The client state is stored back
NetStore(N) ==
  /\ g_udp' = N.udp
  /\ g_remote_ip' = N.ip
  /\ g_udp_port' = N.uport
  /\ g_tcp_port' = N.tport
  /\ g_tcp' = N.tcp
  /\ g_tcp_state' = N.st
  /\ g_next_tcp_reconnect_ms' = N.next
  /\ g_tcp_txbuf' = N.txbuf
  /\ g_tcp_txlen' = N.txlen
  /\ lwip' = N.lwip

\* What does not belong to the network client
notNet == <<tftVars, s_state, obsVars, uiVars, i2cVars, sysVars, tele, ioVars>>

\* APP_NET_SetRemote(ip_str, udp_port, tcp_port)
SetRemote_NoClose(N) == N
SetRemote_Close(N) == app_tcp_close(N)

APP_NET_SetRemote(ip_str, udp_port, tcp_port) ==
  /\ ~halted
  /\ UNCHANGED notNet
  /\ UNCHANGED <<lwip_tick, send_tick, g_udp_last, g_tcp_last, net_hist>>
  /\ net_obs' = [NoNetObs EXCEPT !.fn = "APP_NET_SetRemote",
                                 !.ret = parse_ip(ip_str),
                                 !.pre_ev = Snap(NetState)]
  /\ IF ~parse_ip(ip_str)
       THEN NetStore(NetState)
       ELSE NetStore(SetRemote_Close([NetState EXCEPT !.ip = ip_str,
                                                      !.uport = udp_port,
                                                      !.tport = tcp_port]))

\* App_I2C_GetTempInt
App_I2C_GetTempInt == g_i2c_temp

\* The two timers of APP_NET_Service
PollDue == SignedDelta(uwTick, lwip_tick) >= 0
SendDue == SignedDelta(uwTick, send_tick) >= 0

\* APP_NET_Service calls APP_NET_SendTCP whatever APP_NET_SendUDP returned
Service_SendsTcp_IfUdpOk(udp_ret) == udp_ret
Service_SendsTcp(udp_ret) == TRUE

\* APP_NET_Service(now_ms), now_ms = HAL_GetTick(); ev is the callback lwIP
\* makes during the pump, conn, udp and tcp are the results of the lwIP
\* calls of a connection attempt, of the UDP send and of the TCP send
APP_NET_Service(ev, conn, udp, tcp) ==
  LET now_ms == uwTick
      N0 == NetState
      Nev == LwipCallback(N0, ev)
      N1 == IF PollDue THEN APP_NET_Poll(N0, now_ms, ev, conn) ELSE N0
      attempted == PollDue /\ ReconnectDue(Nev, now_ms) /\ Nev.st = "TCP_DOWN"
      t == [now_ms |-> <<0, now_ms>>,
            i2c_temp_c |-> App_I2C_GetTempInt,
            can_0x101 |-> Snprintf(64, CAN1_GetText_0x101),
            can_0x120 |-> Snprintf(64, CAN1_GetText_0x120)]
      u == APP_NET_SendUDP(N1, t, udp)
      calls_tcp == Service_SendsTcp(u.ret)
      v == IF calls_tcp THEN APP_NET_SendTCP(u.N, t, tcp)
           ELSE [N |-> u.N, ret |-> FALSE, transport |-> "none"]
      N2 == IF SendDue THEN v.N ELSE N1
  IN  /\ ~halted
      /\ UNCHANGED notNet
      /\ NetStore(N2)
      /\ lwip_tick' = IF PollDue THEN (now_ms + LwipPollMs) % TickMod
                      ELSE lwip_tick
      /\ send_tick' = IF SendDue THEN (now_ms + SendPeriodMs) % TickMod
                      ELSE send_tick
      /\ g_udp_last' = IF SendDue
           THEN Snprintf(64, <<116, 115, 61>> \o FmtULong(0, now_ms)
                             \o <<32, 105, 50, 99, 61>> \o FmtLong(t.i2c_temp_c))
           ELSE g_udp_last
      /\ g_tcp_last' = IF SendDue
           THEN Snprintf(64, <<67, 49, 48, 49, 61>> \o Take(t.can_0x101, 58))
           ELSE g_tcp_last
      /\ net_obs' =
           [fn |-> "APP_NET_Service", ret |-> FALSE, now |-> now_ms,
            at |-> elapsed, polled |-> PollDue,
            ev |-> IF PollDue THEN ev ELSE "none",
            pre_ev |-> Snap(N0),
            post_ev |-> IF PollDue THEN Snap(Nev) ELSE Snap(N0),
            attempt |-> IF attempted THEN <<[to |-> <<Nev.ip, Nev.tport>>]>>
                        ELSE <<>>,
            send_due |-> SendDue,
            udp |-> IF SendDue
                      THEN <<[ret |-> u.ret, dgram |-> u.dgram,
                              pre |-> Snap(N1), post |-> Snap(u.N)]>>
                      ELSE <<>>,
            tcp |-> IF SendDue /\ calls_tcp
                      THEN <<[ret |-> v.ret, transport |-> v.transport,
                              pre |-> Snap(u.N)]>>
                      ELSE <<>>]
      /\ net_hist' =
           [attempt_at |-> IF attempted
                             THEN <<net_hist.attempt_at[2], elapsed>>
                             ELSE net_hist.attempt_at,
            send_at |-> IF SendDue THEN <<net_hist.send_at[2], elapsed>>
                        ELSE net_hist.send_at]

\* The results of the lwIP calls that a call of APP_NET_Service consumes
NetEvs == IF PollDue THEN LwipEvents(lwip) ELSE {"none"}
NetConns(ev) ==
  IF PollDue /\ ReconnectDue(LwipCallback(NetState, ev), uwTick)
             /\ LwipCallback(NetState, ev).st = "TCP_DOWN"
    THEN {"ok", "no_pcb", "conn_err"} ELSE {"ok"}
NetUdps ==
  IF ~SendDue THEN {"ok"}
  ELSE IF g_udp = "NULL" THEN {"ok", "no_pcb"}
  ELSE {"ok", "no_pbuf", "send_err"}
NetTcps(ev, conn) ==
  IF SendDue /\ ~SendTCP_Rejects(IF PollDue
                                   THEN APP_NET_Poll(NetState, uwTick, ev, conn)
                                   ELSE NetState)
    THEN {"ok", "write_err", "output_err"} ELSE {"ok"}

(***************************************************************************)
(* Specifications                                                          *)
(***************************************************************************)
vars == <<tftVars, s_state, obsVars, uiVars, i2cVars, sysVars, netVars, ioVars>>

InitCore ==
  /\ g_op = "NONE"
  /\ g_fill_color = 0
  /\ g_fill_sent_pixels = 0
  /\ g_blit_len = 0
  /\ g_blit_sent = 0
  /\ g_linebuf = [tmp |-> <<>>, fg |-> 0, bg |-> 0]
  /\ tft_win = NoWin
  /\ s_state = "IDLE"
  /\ s_ui = [i \in 0..(UI_MAX_LINES - 1) |-> ZeroLine]
  /\ s_ui_rr = 0
  /\ call = "boot"
  /\ pre_op = "NONE"
  /\ bus = NoBus
  /\ tx = NoTx
  /\ ui_obs = NoUiObs
  /\ uwTick = 0
  /\ nextPollMs = 0
  /\ g_i2c_ok = 0
  /\ g_i2c_temp = 0
  /\ g_i2c_last_err = "NONE"
  /\ halted = FALSE
  /\ i2c_obs = NoI2cObs
  /\ elapsed = 0
  /\ fired_at = <<-1, -1>>

\* The network client after APP_NET_Init (main.c:73), with udp_new having
\* returned NULL
InitNet ==
  /\ g_udp = "NULL"
  /\ g_remote_ip = APP_RASPI_IP
  /\ g_udp_port = APP_UDP_PORT
  /\ g_tcp_port = APP_TCP_PORT
  /\ g_tcp = "NULL"
  /\ g_tcp_state = "TCP_DOWN"
  /\ g_next_tcp_reconnect_ms = 0
  /\ g_tcp_txbuf = <<>>
  /\ g_tcp_txlen = 0
  /\ lwip_tick = 0
  /\ send_tick = 0
  /\ g_udp_last = <<45>>
  /\ g_tcp_last = <<45>>
  /\ lwip = NoPcb
  /\ net_obs = NoNetObs
  /\ net_hist = [attempt_at |-> <<-1, -1>>, send_at |-> <<-1, -1>>]

InitCAN ==
  /\ s_hb_seq = 0
  /\ s_has101 = 0
  /\ s_has120 = 0
  /\ s_lux_x100 = <<0, 0>>
  /\ s_full = 0
  /\ s_ir = 0
  /\ s_last_txt = <<110, 111, 32, 100, 97, 116, 97>>
  /\ s_101_txt = TextNone
  /\ s_120_txt = TextNone
  /\ s_last_tick = 0
  /\ s_101_tick = 0
  /\ s_120_tick = 0
  /\ can_hist = [at101 |-> -1, txt101 |-> <<>>, at120 |-> -1, txt120 |-> <<>>]

InitCDC ==
  /\ g_cdc_line = <<>>
  /\ g_cdc_last_line = <<>>
  /\ g_cdc_line_ready = 0
  /\ g_cons_tx = [i \in {} |-> 0]
  /\ g_cons_w = 0
  /\ g_cons_r = 0
  /\ g_prompt_pending = 0
  /\ rl = NoRl
  /\ cdc_obs = [rx |-> 0, entered |-> <<>>, returned |-> <<>>,
                printed |-> <<>>]
  /\ ml = NoMl
  /\ cons_obs = NoConsObs

InitProg == InitCAN /\ InitCDC /\ main_obs = NoMainObs /\ cp = NoCp

\* The display is not observed
NoScreen == [on |-> FALSE, rows |-> [r \in 0..(DisplayRows - 1) |-> FillRow(0)]]
\* The display after the boot fill with black has finished (App_Init)
BootScreen == [on |-> TRUE, rows |-> [r \in 0..(DisplayRows - 1) |-> FillRow(0)]]

InitIO == InitProg /\ screen = NoScreen

Init ==
  /\ InitCore
  /\ InitNet
  /\ InitIO
  /\ tele = NoTele

\* The render engine and the SPI job wrapper, called in any order
TFT_Step ==
  \/ TFT_Init
  \/ \E c \in Colors : TFT_FillColor_Async(c)
  \/ \E y \in DrawYs, t \in DrawTexts : TFT_DrawTextLine_Async(y, t, 65535, 0)
  \/ \E ok \in BOOLEAN : TFT_Task(ok)
  \/ \E len \in {0, 4}, ok \in BOOLEAN : App_SPI_StartTxRx(len, ok)
  \/ HAL_SPI_Callback

NextTFT == TFT_Step

SpecTFT == Init /\ [][NextTFT]_vars

\* The UI line manager over the render engine, called in any order
UI_Step ==
  \/ App_UI_ClearAll
  \/ \E i \in UiIdx : App_UI_ClearLine(i)
  \/ \E i \in UiIdx, fg \in UiFgs, t \in UiTexts : App_UI_SetLine(i, fg, 0, t)
  \/ ui_pump_once

NextUI ==
  \/ UI_Step
  \/ \E ok \in BOOLEAN : TFT_Task(ok)

SpecUI == Init /\ [][NextUI]_vars

\* The UI line manager with one line and texts up to UI_TEXT_MAX characters
NextUIText ==
  \/ \E t \in UiLongTexts : App_UI_SetLine(0, 65535, 0, t)
  \/ ui_pump_once
  \/ \E ok \in BOOLEAN : TFT_Task(ok)

SpecUIText == Init /\ [][NextUIText]_vars

\* The UI line manager as the main loop drives it: TFT_Task and
\* ui_pump_once are called again and again, App_UI_SetLine at any time; the
\* lines below the highest change between the texts, the highest is set
NextUILive ==
  \/ \E i \in 0..(NLines - 2), t \in UiTexts : App_UI_SetLine(i, 65535, 0, t)
  \/ App_UI_SetLine(NLines - 1, 65535, 0, TextX)
  \/ ui_pump_once
  \/ \E ok \in BOOLEAN : TFT_Task(ok)

SpecUILive ==
  /\ Init
  /\ [][NextUILive]_vars
  /\ WF_vars(\E ok \in BOOLEAN : TFT_Task(ok))

\* The telemetry record: every sample is serialized and decoded
InitTelemetry ==
  /\ InitCore
  /\ InitNet
  /\ InitIO
  /\ tele \in {[stage |-> "sample", t |-> t, msg |-> <<>>, out |-> NoDecode] :
                 t \in TeleSamples}

\* The line cache, the render engine and the display they write
InitDisplay == InitCore /\ InitNet /\ InitProg /\ tele = NoTele /\ screen = BootScreen

NextDisplay ==
  \/ App_UI_ClearAll
  \/ App_UI_ClearLine(0)
  \/ App_UI_SetLine(0, 65535, 0, TextX)
  \/ ui_pump_once
  \/ TFT_FillColor_Async(ColorOf(1))
  \/ \E ok \in BOOLEAN : TFT_Task(ok)

SpecDisplay == InitDisplay /\ [][NextDisplay]_vars

\* The console line input: the receive interrupt at any point of the
\* main loop's CDC_ReadLine
NextCDC ==
  \/ \E buf \in RxPackets : cdc_obs.rx < MaxRx /\ CDC_Receive_FS(buf)
  \/ CDC_ReadLine_Begin
  \/ CDC_ReadLine_Copy

SpecCDC == Init /\ [][NextCDC]_vars

\* The main loop: console output service, render engine, UI feed and pump,
\* command line, idle test and idle wait, with the receive interrupt at any
\* point
NextMain ==
  \/ \E res \in {"USBD_OK", "USBD_BUSY", "USBD_FAIL"} : App_USB_Service(res)
  \/ call = "App_USB_Service" /\ TFT_Task(TRUE)
  \/ call = "TFT_Task" /\ \E t \in UiTexts : App_UI_SetLine(0, 65535, 0, t)
  \/ call = "App_UI_SetLine" /\ ui_pump_once
  \/ call \in {"App_UI_SetLine", "ui_pump_once"} /\ CDC_ReadLine_Begin
  \/ CDC_ReadLine_Copy
  \/ Main_IdleTest
  \/ Main_WFI
  \/ \E buf \in MainRxPackets : cdc_obs.rx < MaxRx /\ CDC_Receive_FS(buf)

SpecMain == Init /\ [][NextMain]_vars

\* The console output ring: the main loop prints, byte by byte, with the
\* receive interrupt at any point
NextConsPush ==
  \/ \E str \in PrintTexts :
       cons_obs.prints < MaxPrints /\ CDC_ConsolePrintSafe_Begin(str)
  \/ cons_push_bytes_Test
  \/ cons_push_bytes_Store
  \/ cons_push_bytes_Commit
  \/ \E buf \in MainRxPackets : cdc_obs.rx < MaxRx /\ CDC_Receive_FS(buf)

SpecConsPush == Init /\ [][NextConsPush]_vars

\* The console output service step by step, with the receive interrupt at
\* any point outside its critical sections
NextConsTx ==
  \/ CDC_ConsoleTxService_Dequeue
  \/ \E res \in {"USBD_OK", "USBD_BUSY", "USBD_FAIL"} :
       CDC_ConsoleTxService_Transmit(res)
  \/ CDC_ConsoleTxService_Rollback
  \/ \E buf \in FillPackets : cdc_obs.rx < MaxFillRx /\ CDC_Receive_FS(buf)

SpecConsTx == Init /\ [][NextConsTx]_vars

\* The sensor poll and the status commands of the console
NextStatus ==
  \/ \E r1 \in OkAttempts : App_I2C_Service(r1, r1, 0, TRUE)
  \/ \E r1 \in FailAttempts : App_I2C_Service(r1, r1, 0, TRUE)
  \/ \E buf \in StatusPackets : cdc_obs.rx < MaxCmds /\ CDC_Receive_FS(buf)
  \/ CDC_ReadLine_Begin
  \/ CDC_ReadLine_Copy
  \/ HAL_IncTick(POLL_MS, StatusMaxTick)

SpecStatus == Init /\ [][NextStatus]_vars

\* The CAN decoder: frames arrive at any tick
NextCAN ==
  \/ \E rx_ok \in BOOLEAN, f \in CanFrames :
       HAL_CAN_RxFifo0MsgPendingCallback(rx_ok, f)
  \/ HAL_IncTick(CanTickStep, CanMaxTick)

SpecCAN == Init /\ [][NextCAN]_vars

\* The snapshot copy of the main loop, with the receive interrupt at any
\* point of it
NextCANCopy ==
  \/ \E rx_ok \in BOOLEAN, f \in CopyFrames :
       HAL_CAN_RxFifo0MsgPendingCallback(rx_ok, f)
  \/ \E id \in {257, 288} : Snapshot_Get(id)
  \/ Snapshot_CopyChar
  \/ HAL_IncTick(CopyTickStep, CopyMaxTick)

SpecCANCopy == Init /\ [][NextCANCopy]_vars

\* The telemetry sample: built from any pair of snapshot texts, serialized
InitTeleBuild ==
  /\ InitCore
  /\ InitNet
  /\ InitIO
  /\ tele \in {[stage |-> "raw", raw |-> <<a, b>>,
                 t |-> [now_ms |-> ts, i2c_temp_c |-> v,
                        can_0x101 |-> <<>>, can_0x120 |-> <<>>],
                 msg |-> <<>>, out |-> NoDecode] :
                 a \in RawTexts, b \in RawTexts,
                 ts \in {TeleTsOf(0), TeleTsOf(7)},
                 v \in {0, -2147483647 - 1}}

NextTeleBuild ==
  \/ Telemetry_Sample
  \/ Telemetry_Serialize

SpecTeleBuild == InitTeleBuild /\ [][NextTeleBuild]_vars

NextTelemetry ==
  \/ Telemetry_Serialize
  \/ Telemetry_Decode

SpecTelemetry == InitTelemetry /\ [][NextTelemetry]_vars

\* The network client: APP_NET_Service called at any tick, with any
\* callbacks and results of lwIP, and APP_NET_SetRemote called at any time
NextNet ==
  \/ \E ev \in NetEvs : \E conn \in NetConns(ev) :
       \E udp \in NetUdps : \E tcp \in NetTcps(ev, conn) :
          APP_NET_Service(ev, conn, udp, tcp)
  \/ \E a \in RemoteArgs : APP_NET_SetRemote(a[1], a[2], a[3])
  \/ HAL_IncTick(NetTickStep, NetMaxTick)

SpecNet == Init /\ [][NextNet]_vars

\* The sensor poll service, called at any tick
\* (the inputs a call does not consume are not enumerated)
NextI2C ==
  \/ \E r1 \in OkAttempts : App_I2C_Service(r1, r1, 0, TRUE)
  \/ \E r1 \in FailAttempts, sda \in SdaLowReads :
       \/ App_I2C_Service(r1, r1, sda, FALSE)
       \/ \E r2 \in Attempts : App_I2C_Service(r1, r2, sda, TRUE)
  \/ HAL_IncTick(TickStep, MaxTick)

SpecI2C == Init /\ [][NextI2C]_vars

\* The sensor poll service called at any tick, over a wrap-around of the
\* millisecond counter: a good read, or a failed read and a good retry
NextI2CWrap ==
  \/ \E r1 \in OkAttempts : App_I2C_Service(r1, r1, 0, TRUE)
  \/ \E r1 \in FailAttempts, r2 \in OkAttempts :
       App_I2C_Service(r1, r2, 0, TRUE)
  \/ HAL_IncTick(TickStep, MaxWrapTick)

SpecI2CWrap == Init /\ [][NextI2CWrap]_vars

(***************************************************************************)
(* Render engine: claims                                                   *)
(***************************************************************************)
engineVars == <<g_op, g_fill_color, g_fill_sent_pixels, g_blit_len,
                g_blit_sent, g_linebuf>>

CeilDiv(a, b) == (a + b - 1) \div b

C2_BusOwnedByEngine ==
  (pre_op # "NONE" /\ bus.kind # "none") =>
     (call = "TFT_Task" /\ bus.kind \in {"data", "failed"})

\* C3: a fill started from idle and driven only by TFT_Task transfers pixels
\* of the fill colour only, is active while fewer than TFT_W * TFT_H pixels
\* were transferred, and is idle with exactly TFT_W * TFT_H pixels
\* transferred afterwards, however many TFT_Task calls follow.
C3_FillTransfersWholeScreen ==
  (tx.op = "FILL" /\ tx.from_idle /\ tx.intact) =>
     /\ tx.good
     /\ g_op \in {"FILL", "NONE"}
     /\ g_op = "FILL" => tx.pixels < TFT_PIXELS
     /\ g_op = "NONE" => tx.pixels = TFT_PIXELS

\* C3 witness: the fill has completed and a further TFT_Task call was made
\* on the idle engine
C3_Witness ==
  /\ tx.op = "FILL" /\ tx.from_idle /\ tx.intact
  /\ tx.pixels = TFT_W * TFT_H
  /\ tx.color # 0
  /\ call = "TFT_Task" /\ pre_op = "NONE" /\ g_op = "NONE"

C5_ResetIdenticalNeverDirties ==
  [][(call' = "App_UI_SetLine" /\ ui_obs'.same) =>
       /\ s_ui'[ui_obs'.idx].dirty = s_ui[ui_obs'.idx].dirty
       /\ s_ui'[ui_obs'.idx].text = s_ui[ui_obs'.idx].text
       /\ LinePending(s_ui'[ui_obs'.idx]) => LinePending(s_ui[ui_obs'.idx])]_vars

\* C6: every ui_pump_once call hands at most one line to
\* TFT_DrawTextLine_Async, however many lines are pending.
C6_PumpSubmitsAtMostOne == Len(ui_obs.subs) <= 1

\* C6 witness: ui_pump_once has submitted one line and another line is
\* still pending
C6_Witness ==
  /\ call = "ui_pump_once"
  /\ Len(ui_obs.subs) = 1
  /\ \E j \in 0..(UI_MAX_LINES - 1) :
       j # ui_obs.subs[1] /\ LinePending(s_ui[j])

LineDiffers(i) == s_ui[i].used # 0 /\ s_ui[i].text # s_ui[i].last
LineSubmitted(i) == call = "ui_pump_once" /\ ui_obs.subs = <<i>>

\* C7: if ui_pump_once is called infinitely often with the render engine
\* idle, every used line whose desired text differs from its last-rendered
\* text is eventually submitted (or set back to its last-rendered text),
\* whatever App_UI_SetLine calls change the other lines in between.
C7_NoLineStarves ==
  ([]<><<ui_pump_once /\ g_op = "NONE">>_vars) =>
     \A i \in 0..(NLines - 1) :
        LineDiffers(i) ~> (LineSubmitted(i) \/ ~LineDiffers(i))

\* C7 witness: the highest line was submitted while line 0, rendered
\* before, has been changed again and is waiting
C7_Witness ==
  /\ LineSubmitted(NLines - 1)
  /\ LineDiffers(0)
  /\ s_ui[0].last # <<>>

(***************************************************************************)
(* Sensor poll service: claims                                             *)
(***************************************************************************)
ReadFailed(k) == Len(i2c_obs.reads) >= k /\ i2c_obs.reads[k].st # "HAL_OK"
ReadOk(k) == Len(i2c_obs.reads) >= k /\ i2c_obs.reads[k].st = "HAL_OK"

\* C8: when the poll fires, the first read fails and the read after the
\* recovery succeeds, the published state is ok and the published value is
\* the value of the retried read.
C8_RetrySuccessPublished ==
  (i2c_obs.fired /\ ReadFailed(1) /\ ReadOk(2)) =>
     /\ g_i2c_ok = 1
     /\ g_i2c_temp = Int16LE(i2c_obs.reads[2].b0, i2c_obs.reads[2].b1)

\* C8 witness: a failed read, then a retry that read 0xFFFF, published as -1
C8_Witness ==
  /\ i2c_obs.fired /\ ReadFailed(1) /\ ReadOk(2)
  /\ i2c_obs.reads[2].b0 = 255 /\ i2c_obs.reads[2].b1 = 255
  /\ g_i2c_ok = 1 /\ g_i2c_temp = -1

\* C9: when the poll fires and both the first read and the retry fail, the
\* published state is error and the published error symbol is that of the
\* error flags of the retry.
C9_RetryFailurePublished ==
  (i2c_obs.fired /\ ReadFailed(1) /\ ReadFailed(2)) =>
     /\ g_i2c_ok = 0
     /\ g_i2c_last_err = I2C_ErrStr(i2c_obs.reads[2].e)

\* C9 witness: a NACK on the first read, a bus error on the retry, "BUS"
\* published after an earlier successful poll
C9_Witness ==
  /\ i2c_obs.fired /\ ReadFailed(1) /\ ReadFailed(2)
  /\ i2c_obs.reads[1].e = {"AF"}
  /\ i2c_obs.reads[2].e = {"BERR", "ARLO"}
  /\ g_i2c_last_err = "BUS"
  /\ g_i2c_ok = 0
  /\ g_i2c_temp # 0

\* C10: every firing of the poll performs one read and no recovery if the
\* first read succeeds, and exactly one recovery and exactly one retry if it
\* fails; never more than two reads or more than one recovery.
C10_OneRecoveryOneRetry ==
  i2c_obs.fired =>
     /\ Len(i2c_obs.reads) <= 2
     /\ Len(i2c_obs.recov) <= 1
     /\ ReadOk(1) => (Len(i2c_obs.reads) = 1 /\ Len(i2c_obs.recov) = 0)
     /\ ReadFailed(1) => (Len(i2c_obs.reads) = 2 /\ Len(i2c_obs.recov) = 1)

\* C11: App_I2C_Service does no read and changes nothing unless the signed
\* difference between the clock and the stored deadline is non-negative; a
\* firing sets the deadline to the clock + POLL_MS (as the counter wraps),
\* and two firings are at least POLL_MS milliseconds apart, also across the
\* wrap-around of the counter.
C11_PollDeadline ==
  [][uwTick' = uwTick =>
       IF SignedDelta(uwTick, nextPollMs) < 0
         THEN /\ UNCHANGED <<nextPollMs, g_i2c_ok, g_i2c_temp, g_i2c_last_err>>
              /\ ~i2c_obs'.fired
              /\ i2c_obs'.reads = <<>>
         ELSE /\ i2c_obs'.fired
              /\ nextPollMs' = (uwTick + POLL_MS) % TickMod
              /\ fired_at'[2] = elapsed
              /\ fired_at'[1] # -1 => fired_at'[2] - fired_at'[1] >= POLL_MS]_vars

\* C11 witness: a firing before and a firing after the wrap-around of the
\* counter, and a call in between that did not fire
C11_Witness ==
  /\ i2c_obs.fired
  /\ fired_at[1] # -1 /\ fired_at[1] < TickMod
  /\ fired_at[2] >= TickMod
  /\ fired_at[2] - fired_at[1] = POLL_MS
  /\ uwTick < nextPollMs

\* C12: no fault is fatal: every service call of the main loop returns, the
\* main context never stays in the loop of Error_Handler.
C12_NothingFatal == ~halted

(***************************************************************************)
(* Network client: claims                                                  *)
(***************************************************************************)
\* C13: a TCP send made while the pending length is nonzero or the state is
\* not Up returns false and leaves the state, the pending length and the
\* transmit buffer as they were.
C13_SendRejected ==
  (/\ net_obs.tcp # <<>>
   /\ \/ net_obs.tcp[1].pre.txlen # 0
      \/ net_obs.tcp[1].pre.st # "TCP_UP")
  => /\ ~net_obs.tcp[1].ret
     /\ net_obs.tcp[1].transport = "none"
     /\ g_tcp_state = net_obs.tcp[1].pre.st
     /\ g_tcp_txlen = net_obs.tcp[1].pre.txlen
     /\ g_tcp_txbuf = net_obs.tcp[1].pre.txbuf

\* C13 witness: a send is made on an Up connection whose previous message is
\* still pending.
C13_Witness ==
  /\ net_obs.tcp # <<>>
  /\ net_obs.tcp[1].pre.st = "TCP_UP"
  /\ net_obs.tcp[1].pre.txlen # 0
  /\ ~net_obs.tcp[1].ret

\* C14: at most one message handed to the TCP transport is unacknowledged
\* at any time.
C14_OneUnacknowledged == lwip.unacked <= 1

\* C15: two connection attempts are never less than 2000 ms apart.
C15_AttemptSpacing ==
  net_hist.attempt_at[1] # -1 =>
     net_hist.attempt_at[2] - net_hist.attempt_at[1] >= ReconnectMs

\* C16: an error event or a remote close that arrives while the state is
\* Connecting or Up leaves the state Down, the handle released and the
\* pending length zero.
C16_ErrorResets ==
  (/\ net_obs.fn = "APP_NET_Service"
   /\ net_obs.ev \in {"err", "recv_close", "connect_failed"}
   /\ net_obs.pre_ev.st \in {"TCP_CONNECTING", "TCP_UP"})
  => /\ net_obs.post_ev.st = "TCP_DOWN"
     /\ net_obs.post_ev.tcp = "NULL"
     /\ net_obs.post_ev.txlen = 0

\* C16 witness: the error event arrives on an Up connection with a message
\* pending.
C16_Witness ==
  /\ net_obs.fn = "APP_NET_Service"
  /\ net_obs.ev = "err"
  /\ net_obs.pre_ev.st = "TCP_UP"
  /\ net_obs.pre_ev.txlen # 0
  /\ net_obs.post_ev.st = "TCP_DOWN"

\* C17: after a TCP send fails in the transport (tcp_write or tcp_output
\* returns an error) the state is Down and the pending length is zero.
C17_SendFailureResets ==
  (/\ net_obs.tcp # <<>>
   /\ net_obs.tcp[1].transport \in {"write_err", "output_err"})
  => /\ g_tcp_state = "TCP_DOWN"
     /\ g_tcp_txlen = 0

\* C18: APP_NET_SetRemote with a valid address leaves the state Down, the
\* handle released and the pending length zero, whatever the state was; every
\* connection (attempted or established) and every datagram targets the
\* address and ports that are set.
C18_SetRemoteResets ==
  /\ (net_obs.fn = "APP_NET_SetRemote" /\ net_obs.ret)
       => /\ g_tcp_state = "TCP_DOWN"
          /\ g_tcp = "NULL"
          /\ g_tcp_txlen = 0
          /\ lwip = NoPcb
  /\ lwip.pcb # "none" => lwip.to = <<g_remote_ip, g_tcp_port>>
  /\ net_obs.attempt # <<>>
       => net_obs.attempt[1].to = <<g_remote_ip, g_tcp_port>>
  /\ (net_obs.udp # <<>> /\ net_obs.udp[1].dgram # <<>>)
       => net_obs.udp[1].dgram[1].to = <<g_remote_ip, g_udp_port>>

\* C18 witness: the remote is changed while a connection to the first
\* address is Up with a message pending.
C18_Witness ==
  /\ net_obs.fn = "APP_NET_SetRemote"
  /\ net_obs.ret
  /\ net_obs.pre_ev.st = "TCP_UP"
  /\ net_obs.pre_ev.txlen # 0
  /\ g_remote_ip = "192.168.1.60"

\* C19: a call of APP_NET_Service attempts a UDP send exactly when the
\* telemetry period has elapsed, with the sample of that instant; two sends
\* are never less than 1000 ms apart; a failed UDP send changes neither the
\* state, the pending length nor the reconnect deadline, and the TCP send of
\* the same period is still called.
C19_UdpEachPeriod ==
  /\ net_obs.fn = "APP_NET_Service"
       => /\ Len(net_obs.udp) = (IF net_obs.send_due THEN 1 ELSE 0)
          /\ Len(net_obs.tcp) = Len(net_obs.udp)
  /\ (net_obs.udp # <<>> /\ net_obs.udp[1].dgram # <<>>)
       => net_obs.udp[1].dgram[1].msg =
            TelemetryMsg([now_ms |-> <<0, net_obs.now>>,
                          i2c_temp_c |-> g_i2c_temp,
                          can_0x101 |-> TextNone, can_0x120 |-> TextNone])
  /\ (net_obs.udp # <<>> /\ ~net_obs.udp[1].ret)
       => net_obs.udp[1].post = net_obs.udp[1].pre
  /\ net_obs.send_due => net_hist.send_at[2] = net_obs.at
  /\ net_hist.send_at[1] # -1
       => net_hist.send_at[2] - net_hist.send_at[1] >= SendPeriodMs

\* C19 witness: the UDP send of a period fails and the TCP send of the same
\* call succeeds.
C19_Witness ==
  /\ net_obs.udp # <<>>
  /\ ~net_obs.udp[1].ret
  /\ net_obs.tcp # <<>>
  /\ net_obs.tcp[1].ret
  /\ net_hist.send_at[1] # -1

(***************************************************************************)
(* UI line cache and render engine: further claims                         *)
(***************************************************************************)
\* C25: for every entry of the line cache, the dirty flag is set if and only
\* if the desired text differs from the last-rendered text.
C25_DirtyIffDiffers ==
  \A i \in 0..(UI_MAX_LINES - 1) :
    (s_ui[i].dirty # 0) <=> (s_ui[i].text # s_ui[i].last)

\* The sent counter and the total of the operation op, in bytes
SentBytes(op, fill_pixels, blit_bytes) ==
  IF op = "FILL" THEN fill_pixels * 2 ELSE blit_bytes
TotalBytes(op, blit_len) == IF op = "FILL" THEN TFT_PIXELS * 2 ELSE blit_len

\* C27: a TFT_Task call on an active operation transfers at most one chunk of
\* TFT_CHUNK_BYTES bytes; the sent counter does not decrease and does not
\* exceed the total; the engine is idle after the call exactly when the
\* counter has reached the total.
C27_PumpOneChunkMonotone ==
  [][(call' = "TFT_Task" /\ g_op # "NONE") =>
       LET sent == SentBytes(g_op, g_fill_sent_pixels, g_blit_sent)
           sent2 == SentBytes(g_op, g_fill_sent_pixels', g_blit_sent')
           total == TotalBytes(g_op, g_blit_len)
       IN  /\ bus'.kind = "data" => bus'.bytes = sent2 - sent
           /\ bus'.kind # "data" => sent2 = sent
           /\ sent2 - sent <= TFT_CHUNK_BYTES
           /\ sent2 >= sent
           /\ sent2 <= total
           /\ (g_op' = "NONE") <=> (sent2 = total)]_vars

\* A fill has sent its last chunk of a whole screen and the engine is idle
C27_Witness ==
  /\ call = "TFT_Task"
  /\ pre_op = "FILL"
  /\ g_op = "NONE"
  /\ bus.kind = "data"
  /\ bus.bytes = TFT_CHUNK_BYTES
  /\ g_fill_sent_pixels = TFT_PIXELS

\* The chunk TFT_Task hands to HAL_SPI_Transmit in the current state
ChunkToSend ==
  IF g_op = "FILL"
    THEN FillChunk(g_fill_color,
                   FillThisPixels(TFT_PIXELS - g_fill_sent_pixels) * 2)
    ELSE BlitChunk(BlitSrc(g_blit_sent),
                   BlitThisPixels(g_blit_len - g_blit_sent) * 2)

\* C28: a TFT_Task call whose bus write fails makes no progress: operation,
\* counters and totals are unchanged and the engine stays busy, no line of the
\* cache is rendered, nothing is halted or reported, and the chunk the next
\* call hands to the bus is the chunk that failed.
C28_FailedWriteNoProgress ==
  [][(call' = "TFT_Task" /\ bus'.kind = "failed") =>
       /\ g_op # "NONE"
       /\ g_op' = g_op
       /\ UNCHANGED <<tftVars, s_state, s_ui, s_ui_rr, halted>>
       /\ [ChunkToSend' EXCEPT !.kind = "failed"] = bus']_vars

\* A bus write has failed in the middle of a blit
C28_Witness ==
  /\ call = "TFT_Task"
  /\ bus.kind = "failed"
  /\ g_op = "BLIT"
  /\ g_blit_sent > 0
  /\ g_blit_sent < g_blit_len

\* C29: a ui_pump_once call made while the render engine is busy submits no
\* line and leaves every entry of the line cache, the round-robin cursor and
\* the render engine unchanged.
C29_PumpOnceBusyNoOp ==
  [][(call' = "ui_pump_once" /\ g_op # "NONE") =>
       /\ ui_obs'.subs = <<>>
       /\ bus'.kind = "none"
       /\ UNCHANGED <<s_ui, s_ui_rr, tftVars>>]_vars

\* ui_pump_once was called while a blit was active and a line was pending
C29_Witness ==
  /\ call = "ui_pump_once"
  /\ pre_op = "BLIT"
  /\ g_op = "BLIT"
  /\ \E i \in 0..(UI_MAX_LINES - 1) : LinePending(s_ui[i])

\* The active lines in cyclic order from the cursor rr
CyclicFrom(rr, n) == [k \in 1..n |-> (rr + k - 1) % n]

\* C30: a ui_pump_once call made while the render engine is idle submits the
\* first used line, in cyclic order from the cursor over the active lines,
\* whose desired text differs from its last-rendered text, records it as
\* rendered and sets the cursor to the index after it modulo the active-line
\* count; if there is no such line, also with zero active lines, it submits
\* nothing and sets the cursor to zero.
C30_PumpOnceSubmitsFirstDiffering ==
  [][(call' = "ui_pump_once" /\ g_op = "NONE") =>
       LET n == ui_active_count
           diff == SelectSeq(CyclicFrom(s_ui_rr, n),
                             LAMBDA i : s_ui[i].used # 0 /\
                                        s_ui[i].text # s_ui[i].last)
       IN  IF diff = <<>>
             THEN /\ ui_obs'.subs = <<>>
                  /\ g_op' = "NONE"
                  /\ s_ui_rr' = 0
             ELSE /\ ui_obs'.subs = <<Head(diff)>>
                  /\ g_op' = "BLIT"
                  /\ s_ui'[Head(diff)].last = s_ui[Head(diff)].text
                  /\ s_ui_rr' = (Head(diff) + 1) % n]_vars

\* What the line cache records as rendered in the row of entry L
CacheRow(L) == TextRow([tmp |-> ClipText(L.last), fg |-> L.fg, bg |-> L.bg])

\* C26: whenever the render engine is idle, for every entry of the line cache
\* the last-rendered text with the entry's colours is what the display shows
\* in the row of that entry.
C26_CacheMatchesDisplay ==
  (screen.on /\ g_op = "NONE") =>
    \A i \in 0..(DisplayRows - 1) : screen.rows[i] = CacheRow(s_ui[i])

(***************************************************************************)
(* Main loop and console: claims                                           *)
(***************************************************************************)
\* C22: when the main loop executes its idle wait, the render engine is idle
\* and the console output queue is empty with no prompt pending.
C22_IdleOnlyWhenNoOutput ==
  main_obs.wfi => (main_obs.cons_empty /\ ~main_obs.busy)

\* The lines of a are lines of b, in the same order, each used at most once
RECURSIVE IsSubseq(_, _)
IsSubseq(a, b) ==
  IF a = <<>> THEN TRUE
  ELSE IF b = <<>> THEN FALSE
  ELSE IF Head(a) = Head(b) THEN IsSubseq(Tail(a), Tail(b))
  ELSE IsSubseq(a, Tail(b))

\* C24: the lines CDC_ReadLine returns are complete lines as they were
\* entered, in the order they were entered, none of them returned twice.
C24_CompleteLinesOnce ==
  cdc_obs.returned # <<>> => IsSubseq(cdc_obs.returned, cdc_obs.entered)

(***************************************************************************)
(* CAN snapshots: claims                                                   *)
(***************************************************************************)
\* C23: CAN1_GetText_0x101 and CAN1_GetText_0x120 return "none" whenever no
\* frame of the id has been received within the last 2000 ms, and the last
\* decoded text of the id otherwise.
C23_FreshOrNone ==
  /\ CAN1_GetText_0x101 =
       (IF can_hist.at101 = -1 \/ elapsed - can_hist.at101 > FRESH_MS
          THEN TextNone ELSE can_hist.txt101)
  /\ CAN1_GetText_0x120 =
       (IF can_hist.at120 = -1 \/ elapsed - can_hist.at120 > FRESH_MS
          THEN TextNone ELSE can_hist.txt120)

(***************************************************************************)
(* Telemetry sample: claims                                                *)
(***************************************************************************)
\* C21: the text fields of a sample are the snapshot texts cut to at most 63
\* characters, and the number of bytes of the record handed to a transport
\* is at most 255 and is the length of the record in the buffer.
C21_RecordFits ==
  /\ tele.stage \in {"sample", "record"}
       => /\ tele.t.can_0x101 = Take(tele.raw[1], 63)
          /\ tele.t.can_0x120 = Take(tele.raw[2], 63)
          /\ TelemetryLen(tele.t) <= 255
          /\ TelemetryLen(tele.t) = Len(TelemetryMsg(tele.t))
  /\ tele.stage = "record" => Len(tele.msg) <= 255

\* C21 witness: the record of the largest sample: both snapshot texts of 127
\* characters, the largest timestamp, the smallest reading
C21_Witness ==
  /\ tele.stage = "record"
  /\ Len(tele.raw[1]) = CanTxtMax
  /\ Len(tele.raw[2]) = CanTxtMax
  /\ tele.t.now_ms = <<65535, 65535>>
  /\ tele.t.i2c_temp_c = -2147483647 - 1
  /\ Len(tele.msg) = 186

(***************************************************************************)
(* Telemetry record: claims                                                *)
(***************************************************************************)
\* C20: for every timestamp (uint32_t), every sensor reading (int32_t) and
\* every pair of snapshot texts, decoding the ts and i2c fields of the
\* serialized record yields the timestamp and the reading of the sample.
C20_RecordRoundTrip ==
  tele.stage = "decoded" =>
     /\ tele.out.ok
     /\ tele.out.ts = tele.t.now_ms
     /\ tele.out.i2c = tele.t.i2c_temp_c

\* C20 witness: the sample with the largest timestamp, the smallest reading
\* and snapshot texts that contain field names has been decoded
C20_Witness ==
  /\ tele.stage = "decoded"
  /\ tele.t.now_ms = <<65535, 65535>>
  /\ tele.t.i2c_temp_c = -2147483647 - 1
  /\ tele.t.can_0x101 = TextTricky
  /\ tele.out.ok
  /\ tele.out.i2c < -2147483647


CountOf(t, b) == Cardinality({i \in DOMAIN t : t[i] = b})
\* The same bytes, each as often, in any order
SameBytes(a, b) ==
  /\ Len(a) = Len(b)
  /\ \A i \in DOMAIN a : CountOf(a, a[i]) = CountOf(b, a[i])

\* C32: the receive interrupt never advances the write index of the console
\* output ring while a main-loop print is between reading it and writing it
\* back, so once the print has returned the ring holds every byte that
\* either context stored since the print began: none lost, none overwritten.
C32_NoByteLost ==
  (cons_obs.track = "print" /\ ml.pc = "out")
     => SameBytes(ConsQueued(ConsState), cons_obs.acc)


(***************************************************************************)
(* Bus recovery and published sensor status: claims                        *)
(***************************************************************************)
\* C33: every bus recovery issues at most 9 clock pulses, then the stop
\* condition, then re-initialises the bus controller, and returns.
C33_RecoveryTerminates ==
  \A k \in DOMAIN i2c_obs.recov :
     /\ i2c_obs.recov[k].pulses <= 9
     /\ i2c_obs.recov[k].stop
     /\ i2c_obs.recov[k].reinit
     /\ ~halted


\* C34: a call of App_I2C_Service that does not fire changes none of
\* g_i2c_ok, g_i2c_temp and g_i2c_last_err; a firing that ends in error
\* clears g_i2c_ok and leaves g_i2c_temp as it was; g_i2c_temp changes only
\* in a firing whose last read succeeded, to the value of that read.
C34_ValueKeptOnError ==
  [][uwTick' = uwTick =>
       LET n == Len(i2c_obs'.reads)
       IN  /\ ~i2c_obs'.fired
             => UNCHANGED <<g_i2c_ok, g_i2c_temp, g_i2c_last_err>>
           /\ (i2c_obs'.fired /\ i2c_obs'.reads[n].st # "HAL_OK")
             => /\ g_i2c_temp' = g_i2c_temp
                /\ halted' \/ g_i2c_ok' = 0
           /\ g_i2c_temp' # g_i2c_temp
             => /\ i2c_obs'.fired
                /\ i2c_obs'.reads[n].st = "HAL_OK"
                /\ g_i2c_ok' = 1
                /\ g_i2c_temp' = Int16LE(i2c_obs'.reads[n].b0,
                                         i2c_obs'.reads[n].b1)]_vars

\* C34 witness: a firing has ended in error after an earlier poll published
\* -1, which is still the published value
C34_Witness ==
  /\ i2c_obs.fired /\ ReadFailed(1) /\ ReadFailed(2)
  /\ ~halted
  /\ g_i2c_ok = 0
  /\ g_i2c_temp = -1


\* C35: whenever the pending-send length is nonzero the connection state is
\* Up, also between the lwIP callback and the sends of one service call;
\* every step that takes the state to Down or Connecting leaves the pending
\* length at zero.
C35_PendingOnlyWhenUp ==
  [][/\ g_tcp_txlen' # 0 => g_tcp_state' = "TCP_UP"
     /\ (net_obs'.fn = "APP_NET_Service" /\ net_obs'.post_ev.txlen # 0)
          => net_obs'.post_ev.st = "TCP_UP"
     /\ (g_tcp_state' # g_tcp_state /\ g_tcp_state' # "TCP_UP")
          => g_tcp_txlen' = 0]_vars

\* C35 witness: the remote closed an Up connection that had a send pending;
\* the state is no longer Up and the pending length is zero
C35_Witness ==
  /\ net_obs.fn = "APP_NET_Service"
  /\ net_obs.ev = "recv_close"
  /\ net_obs.pre_ev.st = "TCP_UP"
  /\ net_obs.pre_ev.txlen # 0
  /\ g_tcp_state # "TCP_UP"
  /\ g_tcp_txlen = 0


C37_ValidOnlyAfterFrame ==
  CAN1_120_IsValid = 1 =>
     /\ can_hist.at120 # -1
     /\ elapsed - can_hist.at120 <= FRESH_MS
     /\ CAN1_GetText_0x120 # TextNone


(***************************************************************************)
(* Snapshot copy: claims                                                   *)
(***************************************************************************)
\* The texts a complete copy of the snapshot of an id can be: the sentinel
\* or the text decoded from one frame of the id
CompleteTexts(id) ==
  {Snprintf(TELE_TXT_SZ, TextNone)} \cup
  {Snprintf(TELE_TXT_SZ, FrameText(f)) :
     f \in {g \in CanFrames \cup CopyFrames :
              \/ id = 257 /\ g.StdId = 257 /\ g.DLC >= 1
              \/ id = 288 /\ g.StdId = 288 /\ g.DLC = 8}}

\* C38: a snapshot text copied by the main loop is the complete text of one
\* decoded frame of the id or the sentinel "none", also when the receive
\* interrupt rewrites the buffer during the copy.
C38_CopyIsOneFrameText ==
  cp.done => cp.last \in CompleteTexts(cp.id)


\* C39: after CDC_ConsoleTxService has rolled the read index back because
\* the USB transmit was busy, the queue holds exactly what it held before
\* the dequeue followed by the bytes the receive interrupt queued since, in
\* that order: none lost, duplicated or reordered.
C39_RollbackRestoresQueue ==
  cons_obs.rolled =>
     ConsQueued(ConsState) = cons_obs.before \o cons_obs.meanwhile



\* The bytes of the error strings of I2C_ErrStr
ErrText(e) ==
  IF e = "NONE" THEN <<78, 79, 78, 69>>
  ELSE IF e = "NACK" THEN <<78, 65, 67, 75>>
  ELSE IF e = "TIMEOUT" THEN <<84, 73, 77, 69, 79, 85, 84>>
  ELSE IF e = "BUS" THEN <<66, 85, 83>>
  ELSE IF e = "ARLO" THEN <<65, 82, 76, 79>>
  ELSE IF e = "OVR" THEN <<79, 86, 82>>
  ELSE IF e = "DMA" THEN <<68, 77, 65>>
  ELSE <<85, 78, 75, 78, 79, 87, 78>>

\* The text of a status command for the status the sensor poll service
\* publishes (g_i2c_ok, g_i2c_temp and g_i2c_last_err of i2c.c, read through
\* App_I2C_IsOk, App_I2C_GetTempInt and App_I2C_GetLastErr)
PublishedOutput(cmd) ==
  LET p == SkipBlanks(cmd)
      err == ErrText(g_i2c_last_err)
  IN  IF p = CmdStatus
        THEN StatusLine(g_i2c_ok, App_I2C_GetTempInt, err, CAN1_GetLastText)
      ELSE IF p = CmdStatusJson
        THEN StatusJson(g_i2c_ok, App_I2C_GetTempInt, err, CAN1_GetLastText)
      ELSE I2cLine(g_i2c_ok, App_I2C_GetTempInt, err)

\* C40: when a status command (status, status json, get i2c) returns after
\* the sensor poll service has polled, the text it prints reports the status
\* the service published last: ok with its value after a successful poll,
\* error with its reason after a failed one.
C40_StatusIsPublished ==
  [][(/\ cdc_obs'.returned # cdc_obs.returned
      /\ fired_at[2] # -1)
       => cdc_obs'.printed
            = PublishedOutput(cdc_obs'.returned[Len(cdc_obs'.returned)])]_vars

====
